---- MODULE Spec2Model ----
(***************************************************************************)
(* Model of testinator's concurrent test-execution core:                   *)
(*   - MCPPool (mcp-pool.ts): initialize / acquire / release / close       *)
(*   - Main (main.ts): run, runSpecsInParallel, runNext, runSpecWithPool   *)
(*                                                                         *)
(* Two specifications share the pool variables:                            *)
(*   SpecPool  the pool driven by arbitrary callers                        *)
(*   Spec      one Main.run() from start to return / throw                 *)
(***************************************************************************)
EXTENDS Integers, Sequences, FiniteSets, TLC

(* ------------------------------ bounds --------------------------------- *)
\* largest size passed to initialize by the callers of SpecPool
MaxSize == 2
\* number of pool API calls the callers of SpecPool make
MaxOps == 4
\* step budget of the Agent Loop (maxSteps: 50 in runSpecWithClient)
MaxSteps == 3
\* spec paths are drawn from 1..MaxPath (numeric order = sorted path order)
MaxPath == 2
\* largest requested concurrency of a run
MaxConc == 2
\* maxSteps of the authentication Agent Loop (30 in the source)
MaxAuthSteps == 3
\* largest number of items in one localStorage list
MaxItems == 2
\* largest number of nodes of a tool's parameter schema
MaxNodes == 5

(* ------------------------------ helpers -------------------------------- *)
Min(a, b) == IF a < b THEN a ELSE b

Max(a, b) == IF a > b THEN a ELSE b

Range(s) == {s[i] : i \in 1..Len(s)}

\* String.prototype.includes on token sequences
Contains(hay, needle) ==
  \E i \in 0..(Len(hay) - Len(needle)) : SubSeq(hay, i + 1, i + Len(needle)) = needle

\* an absent optional field / a present one
None == <<>>

Some(v) == <<v>>

NoId == -1

(* ------------------------------ state ---------------------------------- *)
VARIABLES
  \* MCPPool fields
  available,      \* PooledClient[]: sequence of [id, client]
  inUse,          \* Set<number>
  initialized,    \* boolean
  \* MCPPool calls in flight
  initPending,    \* sizes of initialize() calls awaiting Promise.all(createPromises)
  closePc,        \* "idle" | "iter": close() suspended inside its for-of loop
  closeIdx,       \* array-iterator index of that loop
  closeArr,       \* None while the loop iterates this.available itself; Some(a)
                  \* once initialize replaced this.available by a new array
  closedClients,  \* clients on which close() has been called
  \* callers of SpecPool
  waiters,        \* number of acquire() calls polling in the while loop
  nOps,           \* number of API calls made so far
  lastOp,         \* the last API call made: [op, id]
  cpc,            \* per caller of SpecAcquire: "idle" | "waiting" (polling in
                  \* acquire) | "holding"
  csid,           \* per caller: the id of the session it holds (NoId if none)
  created,        \* number of sessions createClient has created
  clientConfigs,  \* the configs createClient wrote for the sessions it created
  initDone,       \* number of initialize() calls that assigned this.available
  initSize,       \* the size given to the initialize() call that did so last
  closeBegun,     \* TRUE once close() has been called
  closeLog,       \* of the last close() call: todo, the sessions that were in the
                  \* available list when it was called and on which close() has
                  \* not been called yet; cur, the session whose close() is
                  \* awaited; threw, the sessions whose close() threw; raced,
                  \* whether an acquire took a session or an initialize
                  \* completed while close() was suspended
  \* Main.run
  files, concurrency, authExists,   \* inputs of the run
  pc,             \* position of run() ("crashed": the process has ended)
  authResult,     \* RunSummary['authResult'] (None when undefined)
  authCalls,      \* number of runAuthentication invocations
  storageStatePath,
  poolStorage,    \* storageStatePath given to the MCPPool constructor
  poolSize,
  queue, results, fileOrder,
  running,        \* number of runNext() promises started by the initial batch
  wpc, wfile, wsid, wres,   \* per worker (runNext chain): position, spec,
                            \* session id, TestResult being returned
  dequeues,       \* per spec path: times it was shifted off the queue
  loopRuns,       \* per spec path: times runSpecWithClient was called for it
  thrown,         \* per spec path: the exception its Agent Loop threw (or None)
  initFailed,     \* pool.initialize rejected; the exception is propagating
  reportWriteTimer,       \* TRUE while the debounce timer is armed
  reportWriteChain,       \* the promise run() awaits before the final write:
                          \* "resolved" | "rejected"
  latestProgressResults,
  reports,        \* number of generateHtmlReport calls
  lastReport,     \* the RunSummary last written by generateHtmlReport
  summary,        \* the RunSummary returned by run() (None before)
  authThrew,      \* runAuthentication rejected
  authEnv,        \* what happened inside that runAuthentication call (None before)
  completedOutOfOrder,  \* the specs did not complete in discovery order
  \* cli main()
  exitCode,       \* the status given to process.exit (None before)
  \* runSpecWithClient (the Agent Loop)
  loopPc,         \* "generating" | "returned" | "threw"
  steps,          \* result.steps: per step the sequence of its tool calls
  text,           \* result.text: the text of the last step
  verdict,        \* the AgentResult returned (None before)
  screenshotCfg,  \* "noPath": no screenshotPath given; "noTool": the session has
                  \* no browser_take_screenshot tool; "tool": it has one
  finalScreenshotCaptured,
  verdictCaptureOk,   \* a capture made by an execute of report_result returned true
  fallbackAttempted,  \* the capture after generateText was called
  \* runAuthentication (the authentication Agent Loop and its tools)
  authPc,         \* "none" | "launching" | "generating" | "closing" | "returned" | "threw"
  authStepCount,  \* number of generateText steps made
  authLast,       \* the tool call of the last step: [tool, failed, outcome]
  savedSessionPath,   \* set by onSessionSaved (None while null)
  authReturn,     \* the AuthResult computed by the try or catch block (None before)
  browserState,   \* what the browser holds when save_session runs: the state
                  \* context.storageState() returns, the page's localStorage
                  \* and the page's origin
  sessionFile,    \* the storage state written by save_session (None before)
  \* normalizeToolsForAzure
  schema,         \* the parameter schema of a tool
  normalized      \* the schema after normalizeSchema (None before)

poolVars == <<available, inUse, initialized, initPending, closePc, closeIdx,
              closeArr, closedClients, created, clientConfigs, initDone, initSize, closeBegun,
              closeLog>>

callerVars == <<waiters, nOps, lastOp>>

acquirerVars == <<cpc, csid>>

inputVars == <<files, concurrency, authExists>>

cliVars == <<exitCode>>

loopVars == <<loopPc, steps, text, verdict, screenshotCfg, finalScreenshotCaptured,
              verdictCaptureOk, fallbackAttempted>>

authVars == <<authPc, authStepCount, authLast, savedSessionPath, authReturn,
              browserState, sessionFile>>

azureVars == <<schema, normalized>>

workerVars == <<running, wpc, wfile, wsid, wres, dequeues, loopRuns, thrown>>

runVars == <<pc, initFailed, authResult, authCalls, storageStatePath, poolStorage, poolSize,
             queue, results, fileOrder, reportWriteTimer, reportWriteChain,
             latestProgressResults, reports, lastReport, summary, authThrew, authEnv, completedOutOfOrder>>

vars == <<poolVars, callerVars, acquirerVars, inputVars, cliVars, loopVars, authVars,
          azureVars, workerVars, runVars>>

(* ------------------------------ MCPPool -------------------------------- *)
\* mutation: every client is created with id 0
NewClients_sameId(size) == [i \in 1..size |-> [id |-> 0, client |-> i - 1]]

\* Array.from({length: size}, (_, i) => createClient(i)): clients 0..size-1
NewClients(size) == [i \in 1..size |-> [id |-> i - 1, client |-> i - 1]]

AvailableIds == {available[i].id : i \in 1..Len(available)}

\* mutation: available[0] is read but not shifted off
acquireTake_peek(av, iu) ==
  [available |-> av, inUse |-> iu \cup {Head(av).id},
   id |-> Head(av).id, client |-> Head(av).client]

\* acquire(), the part after the while loop: shift the head, add it to inUse
acquireTake(av, iu) ==
  [available |-> Tail(av), inUse |-> iu \cup {Head(av).id},
   id |-> Head(av).id, client |-> Head(av).client]

\* mutation: the while loop also waits while one session is available
acquire_keepOne(av, iu) ==
  IF Len(av) <= 1
    THEN [available |-> av, inUse |-> iu, id |-> NoId, client |-> NoId]
    ELSE acquireTake(av, iu)

\* one pass of acquire(): take a client, or keep polling (id = NoId)
acquire(av, iu) ==
  IF Len(av) = 0
    THEN [available |-> av, inUse |-> iu, id |-> NoId, client |-> NoId]
    ELSE acquireTake(av, iu)

\* mutation: the inUse.has(id) guard is missing
release_noGuard(av, iu, id, client) ==
  [available |-> Append(av, [id |-> id, client |-> client]), inUse |-> iu \ {id}]

\* mutation: the client is not pushed back onto the available list
release_drop(av, iu, id, client) == [available |-> av, inUse |-> iu \ {id}]

\* mutation: inUse.delete(id) is missing
release_noDelete(av, iu, id, client) ==
  IF id \in iu
    THEN [available |-> Append(av, [id |-> id, client |-> client]), inUse |-> iu]
    ELSE [available |-> av, inUse |-> iu]

\* release(id, client)
release(av, iu, id, client) ==
  IF id \in iu
    THEN [available |-> Append(av, [id |-> id, client |-> client]),
          inUse |-> iu \ {id}]
    ELSE [available |-> av, inUse |-> iu]

\* mutation: the storage state is left out of the config
createClientConfig_noState(storage) == [isolated |-> TRUE, storageState |-> None]

\* createClient: the config written to mcp-config.json; storageState is the
\* parsed content of the file at this.storageStatePath, when that is set
createClientConfig(storage) == [isolated |-> TRUE, storageState |-> storage]

\* an acquire that took a session, or an initialize that completed, while
\* close() is suspended in its loop
closeRaced(log, hit) ==
  IF closePc = "iter" /\ hit THEN [log EXCEPT !.raced = TRUE] ELSE log

\* the array close() iterates
CloseArray == IF closeArr = None THEN available ELSE closeArr[1]

\* mutation: the "if (this.initialized) return" guard is missing
initializeCall_noGuard(size) ==
  /\ initPending' = Append(initPending, size)
  /\ UNCHANGED <<available, inUse, initialized, closePc, closeIdx, closeArr,
                 closedClients, created, clientConfigs, initDone, initSize, closeBegun, closeLog>>

\* initialize(size), up to the first await
initializeCall(size) ==
  /\ initPending' = IF initialized THEN initPending ELSE Append(initPending, size)
  /\ UNCHANGED <<available, inUse, initialized, closePc, closeIdx, closeArr,
                 closedClients, created, clientConfigs, initDone, initSize, closeBegun, closeLog>>

\* initialize(size), after Promise.all(createPromises) resolved
initializeDone(k) ==
  /\ k \in 1..Len(initPending)
  /\ available' = NewClients(initPending[k])
  /\ initialized' = TRUE
  /\ initPending' = SubSeq(initPending, 1, k - 1) \o SubSeq(initPending, k + 1, Len(initPending))
  /\ created' = created + initPending[k]
  /\ clientConfigs' = IF initPending[k] > 0
                        THEN clientConfigs \cup {createClientConfig(poolStorage)}
                        ELSE clientConfigs
  /\ initDone' = initDone + 1
  /\ initSize' = initPending[k]
  /\ closeArr' = IF closePc = "iter" /\ closeArr = None THEN Some(available) ELSE closeArr
  /\ closeLog' = closeRaced(closeLog, TRUE)
  /\ UNCHANGED <<inUse, closePc, closeIdx, closedClients, closeBegun>>

\* initialize(size) rejects: ensureBrowsers threw (n = 0), or one createClient
\* threw while n of the other size - 1 clients are created
initializeFail(k, n) ==
  /\ k \in 1..Len(initPending)
  /\ n \in 0..Max(0, initPending[k] - 1)
  /\ initPending' = SubSeq(initPending, 1, k - 1) \o SubSeq(initPending, k + 1, Len(initPending))
  /\ created' = created + n
  /\ clientConfigs' = IF n > 0
                        THEN clientConfigs \cup {createClientConfig(poolStorage)}
                        ELSE clientConfigs
  /\ UNCHANGED <<available, inUse, initialized, initDone, initSize, closePc,
                 closeIdx, closeArr, closedClients, closeBegun, closeLog>>

\* the end of close(): this.available = []; rmSync; this.initialized = false
closeFinish ==
  /\ available' = <<>>
  /\ initialized' = FALSE
  /\ closePc' = "idle"
  /\ closeIdx' = 0
  /\ closeArr' = None

\* close(), up to its first await (or to its end when nothing is available)
closeCall ==
  /\ closePc = "idle"
  /\ closeBegun' = TRUE
  /\ IF Len(available) > 0
       THEN /\ closedClients' = closedClients \cup {available[1].client}
            /\ closeLog' = [todo |-> {available[i].client : i \in 2..Len(available)},
                            cur |-> available[1].client, threw |-> {}, raced |-> FALSE]
            /\ closePc' = "iter"
            /\ closeIdx' = 1
            /\ UNCHANGED <<available, initialized, closeArr>>
       ELSE /\ closeFinish
            /\ closeLog' = [todo |-> {}, cur |-> NoId, threw |-> {}, raced |-> FALSE]
            /\ UNCHANGED closedClients
  /\ UNCHANGED <<inUse, initPending, created, clientConfigs, initDone, initSize>>

\* the sessions whose close() threw, after the awaited one resolved or threw
closeThrew(threw) ==
  IF threw THEN closeLog.threw \cup {closeLog.cur} ELSE closeLog.threw

\* mutation: the try/catch around client.close() is missing, so the exception
\* of a session's close() leaves the loop and close() rejects
closeStep_abortOnThrow(threw) ==
  /\ closePc = "iter"
  /\ IF threw
       THEN /\ closePc' = "idle"
            /\ closeIdx' = 0
            /\ closeArr' = None
            /\ closeLog' = [closeLog EXCEPT !.cur = NoId, !.threw = closeThrew(threw)]
            /\ UNCHANGED <<available, initialized, closedClients>>
       ELSE IF closeIdx < Len(CloseArray)
         THEN /\ closedClients' = closedClients \cup {CloseArray[closeIdx + 1].client}
              /\ closeLog' = [closeLog EXCEPT
                                !.todo = @ \ {CloseArray[closeIdx + 1].client},
                                !.cur = CloseArray[closeIdx + 1].client]
              /\ closeIdx' = closeIdx + 1
              /\ UNCHANGED <<available, initialized, closePc, closeArr>>
         ELSE /\ closeFinish
              /\ closeLog' = [closeLog EXCEPT !.cur = NoId]
              /\ UNCHANGED closedClients
  /\ UNCHANGED <<inUse, initPending, created, clientConfigs, initDone, initSize, closeBegun>>

\* close() resumes after "await pooled.client.close()", which resolved or
\* threw (caught and ignored): the for-of loop advances over the live array
closeStep(threw) ==
  /\ closePc = "iter"
  /\ IF closeIdx < Len(CloseArray)
       THEN /\ closedClients' = closedClients \cup {CloseArray[closeIdx + 1].client}
            /\ closeLog' = [closeLog EXCEPT
                              !.todo = @ \ {CloseArray[closeIdx + 1].client},
                              !.cur = CloseArray[closeIdx + 1].client,
                              !.threw = closeThrew(threw)]
            /\ closeIdx' = closeIdx + 1
            /\ UNCHANGED <<available, initialized, closePc, closeArr>>
       ELSE /\ closeFinish
            /\ closeLog' = [closeLog EXCEPT !.cur = NoId, !.threw = closeThrew(threw)]
            /\ UNCHANGED closedClients
  /\ UNCHANGED <<inUse, initPending, created, clientConfigs, initDone, initSize, closeBegun>>

(* ---------------------- SpecPool: arbitrary callers -------------------- *)
Op(name, id) ==
  [op |-> name, id |-> id, again |-> lastOp.op = name /\ lastOp.id = id]

Called(name, id) ==
  /\ nOps < MaxOps
  /\ nOps' = nOps + 1
  /\ lastOp' = Op(name, id)

PoolInitialize(size) ==
  /\ Called("initialize", size)
  /\ initializeCall(size)
  /\ UNCHANGED <<waiters, inputVars, cliVars, loopVars, authVars, azureVars, acquirerVars, workerVars, runVars>>

PoolInitializeDone(k) ==
  /\ initializeDone(k)
  /\ UNCHANGED <<callerVars, inputVars, cliVars, loopVars, authVars, azureVars, acquirerVars, workerVars, runVars>>

PoolInitializeFail(k, n) ==
  /\ initializeFail(k, n)
  /\ UNCHANGED <<callerVars, inputVars, cliVars, loopVars, authVars, azureVars, acquirerVars, workerVars, runVars>>

PoolAcquire ==
  /\ Called("acquire", NoId)
  /\ LET r == acquire(available, inUse) IN
       /\ available' = r.available
       /\ inUse' = r.inUse
       /\ waiters' = IF r.id = NoId THEN waiters + 1 ELSE waiters
       /\ closeLog' = closeRaced(closeLog, r.id # NoId)
  /\ UNCHANGED <<initialized, initPending, closePc, closeIdx, closeArr,
                 closedClients, created, clientConfigs, initDone, initSize, closeBegun>>
  /\ UNCHANGED <<inputVars, cliVars, loopVars, authVars, azureVars, acquirerVars, workerVars, runVars>>

\* the 50 ms timer of a polling acquire() fires and finds a client
PoolAcquirePoll ==
  /\ waiters > 0
  /\ Len(available) > 0
  /\ LET r == acquire(available, inUse) IN
       /\ available' = r.available
       /\ inUse' = r.inUse
       /\ closeLog' = closeRaced(closeLog, r.id # NoId)
  /\ waiters' = waiters - 1
  /\ UNCHANGED <<initialized, initPending, closePc, closeIdx, closeArr,
                 closedClients, created, clientConfigs, initDone, initSize, closeBegun>>
  /\ UNCHANGED <<nOps, lastOp, inputVars, cliVars, loopVars, authVars, azureVars, acquirerVars, workerVars, runVars>>

PoolRelease(id) ==
  /\ Called("release", id)
  /\ LET r == release(available, inUse, id, id) IN
       /\ available' = r.available
       /\ inUse' = r.inUse
  /\ UNCHANGED <<initialized, initPending, closePc, closeIdx, closeArr,
                 closedClients, created, clientConfigs, initDone, initSize, closeBegun, closeLog>>
  /\ UNCHANGED <<waiters, inputVars, cliVars, loopVars, authVars, azureVars, acquirerVars, workerVars, runVars>>

PoolClose ==
  /\ Called("close", NoId)
  /\ closeCall
  /\ UNCHANGED <<waiters, inputVars, cliVars, loopVars, authVars, azureVars, acquirerVars, workerVars, runVars>>

PoolCloseStep(threw) ==
  /\ closeStep(threw)
  /\ UNCHANGED <<callerVars, inputVars, cliVars, loopVars, authVars, azureVars, acquirerVars, workerVars, runVars>>

InitPool ==
  /\ available = <<>>
  /\ inUse = {}
  /\ initialized = FALSE
  /\ initPending = <<>>
  /\ closePc = "idle"
  /\ closeIdx = 0
  /\ closeArr = None
  /\ closedClients = {}
  /\ created = 0
  /\ clientConfigs = {}
  /\ initDone = 0
  /\ initSize = 0
  /\ closeBegun = FALSE
  /\ closeLog = [todo |-> {}, cur |-> NoId, threw |-> {}, raced |-> FALSE]

\* the callers of SpecAcquire: one more than the largest pool has sessions
Callers == 1..(MaxSize + 1)

InitCallers ==
  /\ waiters = 0
  /\ nOps = 0
  /\ lastOp = [op |-> "none", id |-> NoId, again |-> FALSE]
  /\ cpc = [c \in Callers |-> "idle"]
  /\ csid = [c \in Callers |-> NoId]

\* caller c calls pool.acquire(): it takes a session at once or starts polling
AcquireCall(c) ==
  /\ cpc[c] = "idle"
  /\ LET r == acquire(available, inUse) IN
       /\ available' = r.available
       /\ inUse' = r.inUse
       /\ cpc' = [cpc EXCEPT ![c] = IF r.id = NoId THEN "waiting" ELSE "holding"]
       /\ csid' = [csid EXCEPT ![c] = r.id]
       /\ waiters' = IF r.id = NoId THEN waiters + 1 ELSE waiters
  /\ lastOp' = Op("acquire", c)
  /\ UNCHANGED <<initialized, initPending, closePc, closeIdx, closeArr, closedClients,
                 created, clientConfigs, initDone, initSize, closeBegun, closeLog>>
  /\ UNCHANGED <<nOps, inputVars, cliVars, loopVars, authVars, azureVars, workerVars, runVars>>

\* the 50 ms timer of caller c's acquire() fires and the while condition is
\* evaluated again: with a session available the call takes it and returns,
\* otherwise it sets the timer again
AcquirePoll(c) ==
  /\ cpc[c] = "waiting"
  /\ LET r == acquire(available, inUse) IN
       /\ available' = r.available
       /\ inUse' = r.inUse
       /\ cpc' = [cpc EXCEPT ![c] = IF r.id = NoId THEN "waiting" ELSE "holding"]
       /\ csid' = [csid EXCEPT ![c] = r.id]
       /\ waiters' = IF r.id = NoId THEN waiters ELSE waiters - 1
       /\ lastOp' = IF r.id = NoId THEN lastOp ELSE Op("poll", c)
  /\ UNCHANGED <<initialized, initPending, closePc, closeIdx, closeArr, closedClients,
                 created, clientConfigs, initDone, initSize, closeBegun, closeLog>>
  /\ UNCHANGED <<nOps, inputVars, cliVars, loopVars, authVars, azureVars, workerVars, runVars>>

\* caller c gives its session back with pool.release(id, client)
AcquireRelease(c) ==
  /\ cpc[c] = "holding"
  /\ LET r == release(available, inUse, csid[c], csid[c]) IN
       /\ available' = r.available
       /\ inUse' = r.inUse
  /\ cpc' = [cpc EXCEPT ![c] = "idle"]
  /\ csid' = [csid EXCEPT ![c] = NoId]
  /\ lastOp' = Op("release", c)
  /\ UNCHANGED <<initialized, initPending, closePc, closeIdx, closeArr, closedClients,
                 created, clientConfigs, initDone, initSize, closeBegun, closeLog>>
  /\ UNCHANGED <<waiters, nOps, inputVars, cliVars, loopVars, authVars, azureVars, workerVars, runVars>>

(* ------------------------------ data ----------------------------------- *)
Paths == 1..MaxPath

Workers == 1..MaxConc

\* findMarkdownFilesRecursive returns results.sort(): distinct paths, ascending
SortedFileLists ==
  {s \in UNION {[1..n -> Paths] : n \in 0..MaxPath} :
     \A i, j \in DOMAIN s : i < j => s[i] < s[j]}

\* texts are token sequences
\* the message of an exception runSpecWithClient rejects with
ErrTexts == {<<"transport", "closed">>}

\* the message of an exception readFileSync throws
ReadErrTexts == {<<"ENOENT">>}

AgentErrorPrefix == <<"Agent error: ">>

NoSaveSessionError == <<"Login failed: AI did not call save_session after login">>

\* AgentResult values runSpecWithClient returns
VerdictPass ==
  [success |-> TRUE, isToolingError |-> FALSE, toolingErrorMessage |-> <<>>,
   criteria |-> <<[criterion |-> "c1", passed |-> TRUE, reason |-> "ok"]>>]

VerdictFail ==
  [success |-> FALSE, isToolingError |-> FALSE, toolingErrorMessage |-> <<>>,
   criteria |-> <<[criterion |-> "c1", passed |-> FALSE, reason |-> "missing"]>>]

VerdictTooling ==
  [success |-> FALSE, isToolingError |-> TRUE, toolingErrorMessage |-> <<"timeout">>,
   criteria |-> <<>>]

AgentResults == {VerdictPass, VerdictFail, VerdictTooling}

(* ------------------------------ Main ----------------------------------- *)
RECURSIVE CriteriaLines(_)
CriteriaLines(cs) ==
  IF cs = <<>> THEN <<>>
  ELSE <<IF Head(cs).passed THEN "ok-icon" ELSE "fail-icon",
         Head(cs).criterion, Head(cs).reason>> \o CriteriaLines(Tail(cs))

buildDetailsString(result) ==
  (IF result.isToolingError /\ Len(result.toolingErrorMessage) > 0
     THEN <<"Tooling Error: ">> \o result.toolingErrorMessage
     ELSE <<>>)
  \o CriteriaLines(result.criteria)

\* runSpecWithPool, try block: the TestResult built from the AgentResult
ResultOfVerdict(filePath, agentResult) ==
  [specPath |-> filePath,
   success |-> agentResult.success,
   details |-> buildDetailsString(agentResult),
   isToolingError |-> Some(agentResult.isToolingError),
   toolingErrorMessage |-> Some(agentResult.toolingErrorMessage),
   criteria |-> Some(agentResult.criteria)]

\* mutation: the exception's message is left out of details
ResultOfError_noMessage(filePath, errorMessage) ==
  [specPath |-> filePath, success |-> FALSE, details |-> AgentErrorPrefix,
   isToolingError |-> None, toolingErrorMessage |-> None, criteria |-> None]

\* runSpecWithPool, catch block: the TestResult built from the exception
ResultOfError(filePath, errorMessage) ==
  [specPath |-> filePath,
   success |-> FALSE,
   details |-> AgentErrorPrefix \o errorMessage,
   isToolingError |-> None,
   toolingErrorMessage |-> None,
   criteria |-> None]

\* new Map(files.map((f, i) => [f, i]))
FileOrderOf(fs) == [f \in Range(fs) |-> CHOOSE i \in 0..(Len(fs) - 1) : fs[i + 1] = f]

\* fileOrder.get(path) ?? 0
OrderOf(fo, path) == IF path \in DOMAIN fo THEN fo[path] ELSE 0

\* insert r behind every element that does not compare greater (stable)
RECURSIVE InsertByOrder(_, _, _)
InsertByOrder(fo, sorted, r) ==
  IF sorted = <<>> THEN <<r>>
  ELSE IF OrderOf(fo, Head(sorted).specPath) - OrderOf(fo, r.specPath) > 0
    THEN <<r>> \o sorted
    ELSE <<Head(sorted)>> \o InsertByOrder(fo, Tail(sorted), r)

\* mutation: the results are left in completion order
SortByFileOrder_none(fo, rs) == rs

\* rs.sort((a, b) => (fileOrder.get(a.specPath) ?? 0) - (fileOrder.get(b.specPath) ?? 0))
RECURSIVE SortByFileOrder(_, _)
SortByFileOrder(fo, rs) ==
  IF rs = <<>> THEN <<>>
  ELSE InsertByOrder(fo, SortByFileOrder(fo, SubSeq(rs, 1, Len(rs) - 1)), rs[Len(rs)])

\* mutation: only the result pushed last decides
EverySuccess_last(rs) == rs = <<>> \/ rs[Len(rs)].success

\* results.every((r) => r.success)
EverySuccess(rs) == \A i \in DOMAIN rs : rs[i].success

\* mutation: Math.max instead of Math.min
PoolSizeOf_max(c, n) == Max(c, n)

\* const poolSize = Math.min(concurrency, files.length)
PoolSizeOf(c, n) == Min(c, n)

\* mutation: a runNext chain is started for every spec file
InitialBatch_all(size, qlen) == qlen

\* const initialBatch = Math.min(poolSize, queue.length)
InitialBatch(size, qlen) == Min(size, qlen)

RunSummary(rs, passed, auth) == [results |-> rs, allPassed |-> passed, authResult |-> auth]

\* mutation: allPassed computed as results.every(...) over the empty results
AuthFailedSummary_vacuous(auth) == RunSummary(<<>>, EverySuccess(<<>>), auth)

\* run(), "Auth failed - abort test run": the summary returned
AuthFailedSummary(auth) == RunSummary(<<>>, FALSE, auth)

\* mutation: off by one, the last queued spec is never taken
HasMore_offByOne(q) == Len(q) > 1

\* runNext: if (queue.length > 0) await runNext()
HasMore(q) == Len(q) > 0

(* -------------------------- runAuthentication -------------------------- *)
\* what the environment does to one authentication run: whether
\* chromium.launch works, whether the model called save_session, whether that
\* call captured the storage state (else its catch block returned a tool error
\* and onSessionSaved was not called), whether generateText (or another
\* statement of the try block) threw and with what text, whether
\* browser.close() works
AuthEnvs ==
  {e \in [launchOk : BOOLEAN, saved : BOOLEAN, captureOk : BOOLEAN, threw : BOOLEAN,
          err : {<<"net", "down">>}, closeOk : BOOLEAN] :
     /\ ~e.launchOk => (~e.saved /\ ~e.threw /\ e.closeOk)
     /\ ~e.saved => e.captureOk}

runAuthentication(env) ==
  IF ~env.launchOk THEN [kind |-> "throw"]
  ELSE IF ~env.closeOk THEN [kind |-> "throw"]
  ELSE IF env.threw
    THEN [kind |-> "return", success |-> FALSE, error |-> Some(env.err),
          storageStatePath |-> None]
  ELSE IF ~(env.saved /\ env.captureOk)
    THEN [kind |-> "return", success |-> FALSE, error |-> Some(NoSaveSessionError),
          storageStatePath |-> None]
  ELSE [kind |-> "return", success |-> TRUE, error |-> None,
        storageStatePath |-> Some("storage-state.json")]

(* -------------------------- runSpecWithClient -------------------------- *)
\* texts of the model are sequences of characters
LowerChar(c) ==
  CASE c = "A" -> "a" [] c = "F" -> "f" [] c = "I" -> "i" [] c = "L" -> "l"
    [] c = "P" -> "p" [] c = "S" -> "s" [] OTHER -> c

\* String.prototype.toLowerCase
toLowerCase(t) == [i \in 1..Len(t) |-> LowerChar(t[i])]

Texts ==
  {<<>>,
   <<"P", "A", "S", "S">>,
   <<"f", "a", "i", "l">>,
   <<"p", "a", "s", "s", " ", "F", "a", "i", "l">>,
   <<"o", "k">>}

\* arguments the model can give report_result: the schema fixes the types of
\* the four fields only
VerdictInconsistent ==
  [success |-> TRUE, isToolingError |-> TRUE, toolingErrorMessage |-> <<>>,
   criteria |-> <<>>]

ReportArgs == AgentResults \cup {VerdictInconsistent}

\* a call of a tool of the MCP session
BrowserCall == [toolName |-> "browser_click", args |-> None]

ReportCall(a) == [toolName |-> "report_result", args |-> Some(a)]

\* the tool calls the model can make in one step
StepCalls ==
  {<<>>, <<BrowserCall>>, <<ReportCall(VerdictPass), BrowserCall>>,
   <<ReportCall(VerdictPass), ReportCall(VerdictFail)>>,
   <<ReportCall(VerdictFail), ReportCall(VerdictPass)>>}
  \cup {<<ReportCall(a)>> : a \in ReportArgs}

\* the tool calls of all steps, in step order
RECURSIVE AllToolCalls(_)
AllToolCalls(ss) ==
  IF ss = <<>> THEN <<>> ELSE Head(ss) \o AllToolCalls(Tail(ss))

\* mutation: the report_result call made last wins
FirstReport_last(calls) ==
  LET idx == {i \in DOMAIN calls : calls[i].toolName = "report_result"} IN
  IF idx = {} THEN None ELSE calls[CHOOSE i \in idx : \A k \in idx : k <= i].args

\* for (step of result.steps) for (toolCall of step.toolCalls)
\*   if (toolCall.toolName === 'report_result') return toolCall.args
RECURSIVE FirstReport(_)
FirstReport(calls) ==
  IF calls = <<>> THEN None
  ELSE IF Head(calls).toolName = "report_result" THEN Head(calls).args
  ELSE FirstReport(Tail(calls))

\* mutation: the check for 'fail' is missing
TextSuccess_passOnly(lowerText) ==
  Contains(lowerText, <<"p", "a", "s", "s">>)

\* lowerText.includes('pass') && !lowerText.includes('fail')
TextSuccess(lowerText) ==
  /\ Contains(lowerText, <<"p", "a", "s", "s">>)
  /\ ~Contains(lowerText, <<"f", "a", "i", "l">>)

\* the verdict synthesized from the final text
TextVerdict(t) ==
  LET success == TextSuccess(toLowerCase(t)) IN
  [success |-> success, isToolingError |-> FALSE, toolingErrorMessage |-> <<>>,
   criteria |-> <<[criterion |-> "Test execution", passed |-> success,
                   reason |-> IF success THEN "Completed" ELSE "See details"]>>]

NoVerdictResult ==
  [success |-> FALSE, isToolingError |-> TRUE,
   toolingErrorMessage |-> <<"Agent did not produce a test result">>,
   criteria |-> <<>>]

\* runSpecWithClient after generateText resolved: the AgentResult returned
AgentResultOf(ss, t) ==
  IF FirstReport(AllToolCalls(ss)) # None THEN FirstReport(AllToolCalls(ss))[1]
  ELSE IF t # <<>> THEN TextVerdict(t)
  ELSE NoVerdictResult

\* mutation: no step budget
LoopContinues_noBudget(ss) == ss[Len(ss)] # <<>>

\* generateText with maxSteps: a step's tool calls are executed and their
\* results given back to the model in a next step, until a step makes no tool
\* call or maxSteps steps were made
LoopContinues(ss) == Len(ss) < MaxSteps /\ ss[Len(ss)] # <<>>

\* what one run of the screenshot tool and of the write of its image does
CaptureOutcomes == {"ok", "throws", "noImage", "writeFails"}

\* captureFinalScreenshotIfRequested: false without a path or a tool; inside
\* its try block true after the image was written, false without an image;
\* its catch block returns false
captureFinalScreenshotIfRequested(cfg, outcome) == cfg = "tool" /\ outcome = "ok"

\* the number of report_result calls of a step
ReportCount(calls) ==
  Cardinality({i \in DOMAIN calls : calls[i].toolName = "report_result"})

\* finalScreenshotCaptured after the executes of the report_result calls of a
\* step, whose captures finished in the order of shots: each assigns the flag
AfterCaptures(flag, cfg, shots) ==
  IF shots = <<>> THEN flag
  ELSE captureFinalScreenshotIfRequested(cfg, shots[Len(shots)])

\* one step of generateText: the model answers with tool calls and text, and
\* each report_result call runs execute, which captures the screenshot; after
\* the last step runSpecWithClient tries the fallback capture if the flag is
\* not set, and computes and returns its AgentResult
LoopStep(calls, t, shots) ==
  /\ loopPc = "generating"
  /\ Len(steps) < MaxSteps
  /\ Len(shots) = ReportCount(calls)
  /\ steps' = Append(steps, calls)
  /\ text' = t
  /\ finalScreenshotCaptured' = AfterCaptures(finalScreenshotCaptured, screenshotCfg, shots)
  /\ verdictCaptureOk' =
       (verdictCaptureOk \/ \E i \in DOMAIN shots :
                              captureFinalScreenshotIfRequested(screenshotCfg, shots[i]))
  /\ IF LoopContinues(Append(steps, calls))
       THEN UNCHANGED <<loopPc, verdict, fallbackAttempted>>
       ELSE /\ loopPc' = "returned"
            /\ fallbackAttempted' =
                 ~AfterCaptures(finalScreenshotCaptured, screenshotCfg, shots)
            /\ verdict' = Some(AgentResultOf(Append(steps, calls), t))
  /\ UNCHANGED screenshotCfg
  /\ UNCHANGED <<poolVars, callerVars, inputVars, cliVars, authVars, azureVars, acquirerVars,
                 workerVars, runVars>>

\* mcpClient.tools() or generateText rejects: runSpecWithClient rejects
LoopThrow ==
  /\ loopPc = "generating"
  /\ loopPc' = "threw"
  /\ UNCHANGED <<steps, text, verdict, screenshotCfg, finalScreenshotCaptured,
                 verdictCaptureOk, fallbackAttempted>>
  /\ UNCHANGED <<poolVars, callerVars, inputVars, cliVars, authVars, azureVars, acquirerVars,
                 workerVars, runVars>>

(* ------------------------------ Main.run ------------------------------- *)
\* generateHtmlReport(reportsDir, summary, ...)
generateHtmlReport(s) ==
  /\ reports' = reports + 1
  /\ lastReport' = Some(s)

\* mutation: runSpecWithPool goes on without a pool session
runNext_noAcquire(st, w) ==
  IF st.queue = <<>>
    THEN [st EXCEPT !.wpc[w] = "done"]
    ELSE [st EXCEPT !.queue = Tail(st.queue),
                    !.wpc[w] = "acquired",
                    !.wfile[w] = Head(st.queue),
                    !.wsid[w] = NoId,
                    !.dequeues[Head(st.queue)] = @ + 1]

\* runNext(), up to its first suspension, on the state st of queue, pool and
\* workers: shift the queue, call runSpecWithPool, which calls pool.acquire()
runNext(st, w) ==
  IF st.queue = <<>>
    THEN [st EXCEPT !.wpc[w] = "done"]
    ELSE LET filePath == Head(st.queue)
             r == acquire(st.available, st.inUse)
         IN [queue |-> Tail(st.queue),
             available |-> r.available,
             inUse |-> r.inUse,
             wpc |-> [st.wpc EXCEPT ![w] = IF r.id = NoId THEN "waiting" ELSE "acquired"],
             wfile |-> [st.wfile EXCEPT ![w] = filePath],
             wsid |-> [st.wsid EXCEPT ![w] = r.id],
             dequeues |-> [st.dequeues EXCEPT ![filePath] = @ + 1]]

\* for (let i = 0; i < initialBatch; i++) running.push(runNext())
RECURSIVE StartBatch(_, _, _)
StartBatch(st, w, n) ==
  IF w > n THEN st ELSE StartBatch(runNext(st, w), w + 1, n)

WorkerState(q) ==
  [queue |-> q, available |-> available, inUse |-> inUse, wpc |-> wpc,
   wfile |-> wfile, wsid |-> wsid, dequeues |-> dequeues]

SetWorkerState(st) ==
  /\ queue' = st.queue
  /\ available' = st.available
  /\ inUse' = st.inUse
  /\ wpc' = st.wpc
  /\ wfile' = st.wfile
  /\ wsid' = st.wsid
  /\ dequeues' = st.dequeues

\* run() from findMarkdownFilesRecursive to the first await of
\* runSpecsInParallel
BeginSpecs(storage) ==
  IF Len(files) = 0
    THEN /\ pc' = "aggregate"
         /\ UNCHANGED <<poolSize, poolStorage, poolVars>>
    ELSE /\ poolSize' = PoolSizeOf(concurrency, Len(files))
         /\ poolStorage' = storage
         /\ initializeCall(PoolSizeOf(concurrency, Len(files)))
         /\ pc' = "poolInit"

\* mutation: the AUTH_LOGIN.md check never finds the file
existsSync_never(present) == FALSE

\* if (existsSync(authSpecPath))
existsSync(present) == present

\* run() from its start to the first await after checkLLMConnection
RunStart(llmOk) ==
  /\ pc = "start"
  /\ IF ~llmOk
       THEN /\ pc' = "threw"
            /\ UNCHANGED <<authCalls, reports, lastReport, poolSize, poolStorage, poolVars>>
       ELSE /\ generateHtmlReport(RunSummary(<<>>, TRUE, None))
            /\ IF existsSync(authExists)
                 THEN /\ pc' = "auth"
                      /\ authCalls' = authCalls + 1
                      /\ UNCHANGED <<poolSize, poolStorage, poolVars>>
                 ELSE /\ BeginSpecs(None)
                      /\ UNCHANGED authCalls
  /\ UNCHANGED <<initFailed, authResult, storageStatePath, queue, results, fileOrder,
                 reportWriteTimer, reportWriteChain, latestProgressResults, summary, authThrew, authEnv,
                 completedOutOfOrder>>
  /\ UNCHANGED <<callerVars, inputVars, cliVars, loopVars, authVars, azureVars, acquirerVars, workerVars>>

\* run() resumes after "await runAuthentication(...)"
AuthDone(env) ==
  /\ pc = "auth"
  /\ authEnv' = Some(env)
  /\ LET result == runAuthentication(env) IN
       IF result.kind = "throw"
         THEN /\ pc' = "threw"
              /\ authThrew' = TRUE
              /\ UNCHANGED <<authResult, storageStatePath, reports, lastReport, summary,
                             poolSize, poolStorage, poolVars>>
         ELSE LET auth == Some([success |-> result.success, error |-> result.error]) IN
              /\ authResult' = auth
              /\ UNCHANGED authThrew
              /\ IF ~result.success
                   THEN /\ reports' = reports + 2
                        /\ lastReport' = Some(AuthFailedSummary(auth))
                        /\ summary' = Some(AuthFailedSummary(auth))
                        /\ pc' = "returned"
                        /\ UNCHANGED <<storageStatePath, poolSize, poolStorage, poolVars>>
                   ELSE /\ generateHtmlReport(RunSummary(<<>>, result.success, auth))
                        /\ storageStatePath' = result.storageStatePath
                        /\ BeginSpecs(result.storageStatePath)
                        /\ UNCHANGED summary
  /\ UNCHANGED <<initFailed, authCalls, queue, results, fileOrder, reportWriteTimer, reportWriteChain,
                 latestProgressResults, completedOutOfOrder>>
  /\ UNCHANGED <<callerVars, inputVars, cliVars, loopVars, authVars, azureVars, acquirerVars, workerVars>>

\* pool.initialize(poolSize) resolves
PoolInitialized ==
  /\ pc = "poolInit"
  /\ initializeDone(1)
  /\ pc' = "batch"
  /\ UNCHANGED <<initFailed, authResult, authCalls, storageStatePath, poolStorage,
                 poolSize, queue, results, fileOrder, reportWriteTimer, reportWriteChain,
                 latestProgressResults, reports, lastReport, summary, authThrew, authEnv,
                 completedOutOfOrder>>
  /\ UNCHANGED <<callerVars, inputVars, cliVars, loopVars, authVars, azureVars, acquirerVars, workerVars>>

\* pool.initialize(poolSize) rejects; the finally block calls pool.close()
PoolInitFailed(n) ==
  /\ pc = "poolInit"
  /\ initializeFail(1, n)
  /\ initFailed' = TRUE
  /\ pc' = "finally"
  /\ UNCHANGED <<authResult, authCalls, storageStatePath, poolStorage,
                 poolSize, queue, results, fileOrder, reportWriteTimer, reportWriteChain,
                 latestProgressResults, reports, lastReport, summary, authThrew, authEnv,
                 completedOutOfOrder>>
  /\ UNCHANGED <<callerVars, inputVars, cliVars, loopVars, authVars, azureVars, acquirerVars, workerVars>>

\* runSpecsInParallel resumes after "await pool.initialize(poolSize)" and runs
\* to "await Promise.all(running)"
StartWorkers ==
  /\ pc = "batch"
  /\ results' = <<>>
  /\ fileOrder' = FileOrderOf(files)
  /\ running' = InitialBatch(poolSize, Len(files))
  /\ SetWorkerState(StartBatch(WorkerState(files), 1, InitialBatch(poolSize, Len(files))))
  /\ pc' = "workers"
  /\ UNCHANGED <<initialized, initPending, closePc, closeIdx, closeArr, closedClients,
                 created, clientConfigs, initDone, initSize, closeBegun, closeLog>>
  /\ UNCHANGED <<initFailed, authResult, authCalls, storageStatePath, poolStorage,
                 poolSize, reportWriteTimer, reportWriteChain, latestProgressResults, reports,
                 lastReport, summary, authThrew, authEnv, completedOutOfOrder>>
  /\ UNCHANGED <<callerVars, inputVars, cliVars, loopVars, authVars, azureVars, acquirerVars, wres, loopRuns, thrown>>

(* ------------------------------ workers -------------------------------- *)
PoolFrame ==
  UNCHANGED <<initialized, initPending, closePc, closeIdx, closeArr, closedClients,
              created, clientConfigs, initDone, initSize, closeBegun, closeLog>>

RunFrame ==
  UNCHANGED <<pc, initFailed, authResult, authCalls, storageStatePath, poolStorage,
              poolSize, fileOrder, summary, authThrew, authEnv, completedOutOfOrder>>

\* runSpecWithPool resumes at "await pool.acquire()": a polling acquire looks
\* again; an acquired client enters the try block, where readFileSync may throw
\* (caught, released in finally) and otherwise runSpecWithClient is called
AwaitAcquire(w, readErr) ==
  /\ pc = "workers"
  /\ w \in 1..running
  /\ wpc[w] \in {"waiting", "acquired"}
  /\ IF wpc[w] = "waiting"
       THEN LET r == acquire(available, inUse) IN
            /\ r.id # NoId
            /\ available' = r.available
            /\ inUse' = r.inUse
            /\ wsid' = [wsid EXCEPT ![w] = r.id]
            /\ wpc' = [wpc EXCEPT ![w] = "acquired"]
            /\ UNCHANGED <<wres, loopRuns>>
       ELSE IF readErr # None
         THEN LET r == release(available, inUse, wsid[w], wsid[w]) IN
              /\ wres' = [wres EXCEPT ![w] = Some(ResultOfError(wfile[w], readErr[1]))]
              /\ available' = r.available
              /\ inUse' = r.inUse
              /\ wsid' = [wsid EXCEPT ![w] = NoId]
              /\ wpc' = [wpc EXCEPT ![w] = "resolved"]
              /\ UNCHANGED loopRuns
         ELSE /\ loopRuns' = [loopRuns EXCEPT ![wfile[w]] = @ + 1]
              /\ wpc' = [wpc EXCEPT ![w] = "running"]
              /\ UNCHANGED <<available, inUse, wsid, wres>>
  /\ PoolFrame
  /\ RunFrame
  /\ UNCHANGED <<queue, results, reportWriteTimer, reportWriteChain, latestProgressResults, reports, lastReport>>
  /\ UNCHANGED <<callerVars, inputVars, cliVars, loopVars, authVars, azureVars, acquirerVars, running, wfile, dequeues, thrown>>

\* runSpecWithClient resolves with an AgentResult: the try block builds the
\* TestResult and returns it; finally releases the client
AgentReturn(w, agentResult) ==
  /\ pc = "workers"
  /\ w \in 1..running
  /\ wpc[w] = "running"
  /\ LET r == release(available, inUse, wsid[w], wsid[w]) IN
       /\ available' = r.available
       /\ inUse' = r.inUse
  /\ wres' = [wres EXCEPT ![w] = Some(ResultOfVerdict(wfile[w], agentResult))]
  /\ wsid' = [wsid EXCEPT ![w] = NoId]
  /\ wpc' = [wpc EXCEPT ![w] = "resolved"]
  /\ PoolFrame
  /\ RunFrame
  /\ UNCHANGED <<queue, results, reportWriteTimer, reportWriteChain, latestProgressResults, reports, lastReport>>
  /\ UNCHANGED <<callerVars, inputVars, cliVars, loopVars, authVars, azureVars, acquirerVars, running, wfile, dequeues, loopRuns, thrown>>

\* runSpecWithClient rejects: the catch block builds the TestResult from the
\* exception and returns it; finally releases the client
AgentThrow(w, errorMessage) ==
  /\ pc = "workers"
  /\ w \in 1..running
  /\ wpc[w] = "running"
  /\ LET r == release(available, inUse, wsid[w], wsid[w]) IN
       /\ available' = r.available
       /\ inUse' = r.inUse
  /\ wres' = [wres EXCEPT ![w] = Some(ResultOfError(wfile[w], errorMessage))]
  /\ thrown' = [thrown EXCEPT ![wfile[w]] = Some(errorMessage)]
  /\ wsid' = [wsid EXCEPT ![w] = NoId]
  /\ wpc' = [wpc EXCEPT ![w] = "resolved"]
  /\ PoolFrame
  /\ RunFrame
  /\ UNCHANGED <<queue, results, reportWriteTimer, reportWriteChain, latestProgressResults, reports, lastReport>>
  /\ UNCHANGED <<callerVars, inputVars, cliVars, loopVars, authVars, azureVars, acquirerVars, running, wfile, dequeues, loopRuns>>

\* mutation: the snapshot is stored only when the call arms the timer
scheduleProgressReportWrite_stale(timer, latest, orderedResults) ==
  [latestProgressResults |-> IF timer THEN latest ELSE orderedResults,
   reportWriteTimer |-> TRUE]

\* scheduleProgressReportWrite(orderedResults), the synchronous part: store
\* the snapshot, then arm the debounce timer unless it is armed
scheduleProgressReportWrite(timer, latest, orderedResults) ==
  [latestProgressResults |-> orderedResults, reportWriteTimer |-> TRUE]

\* runNext resumes after "await this.runSpecWithPool(...)": push the result,
\* hand the ordered snapshot to onResult (scheduleProgressReportWrite), then
\* call runNext() again if the queue is not empty
RecordResult(w) ==
  /\ pc = "workers"
  /\ w \in 1..running
  /\ wpc[w] = "resolved"
  /\ results' = Append(results, wres[w][1])
  /\ LET orderedSnapshot == SortByFileOrder(fileOrder, Append(results, wres[w][1]))
         sched == scheduleProgressReportWrite(reportWriteTimer, latestProgressResults,
                                              orderedSnapshot)
     IN /\ latestProgressResults' = sched.latestProgressResults
        /\ reportWriteTimer' = sched.reportWriteTimer
  /\ UNCHANGED reportWriteChain
  /\ wres' = [wres EXCEPT ![w] = None]
  /\ IF HasMore(queue)
       THEN SetWorkerState(runNext(WorkerState(queue), w))
       ELSE SetWorkerState([WorkerState(queue) EXCEPT !.wpc[w] = "done"])
  /\ PoolFrame
  /\ RunFrame
  /\ UNCHANGED <<reports, lastReport>>
  /\ UNCHANGED <<callerVars, inputVars, cliVars, loopVars, authVars, azureVars, acquirerVars, running, loopRuns, thrown>>

\* what a progress write can do: succeed; throw, which rejects the promise
\* that "reportWriteChain.then(...)" returned; with no handler on that promise
\* the runtime either goes on (unhandled rejections warn) or ends the process
\* with status 1 (unhandled rejections throw)
WriteOutcomes == {"ok", "rejected", "crash"}

\* the debounce timer fires: take the latest snapshot and chain the write of
\* its progress report, which runs in the same turn unless the chain is
\* already rejected
TimerFire(outcome) ==
  /\ reportWriteTimer
  /\ pc # "crashed"
  /\ reportWriteTimer' = FALSE
  /\ IF reportWriteChain = "rejected"
       THEN UNCHANGED <<reports, lastReport, reportWriteChain, pc, exitCode>>
       ELSE IF outcome = "ok"
         THEN /\ generateHtmlReport(RunSummary(latestProgressResults,
                                               EverySuccess(latestProgressResults),
                                               authResult))
              /\ UNCHANGED <<reportWriteChain, pc, exitCode>>
         ELSE /\ reportWriteChain' = "rejected"
              /\ pc' = IF outcome = "crash" THEN "crashed" ELSE pc
              /\ exitCode' = IF outcome = "crash" THEN Some(1) ELSE exitCode
              /\ UNCHANGED <<reports, lastReport>>
  /\ UNCHANGED <<initFailed, authResult, authCalls, storageStatePath, poolStorage,
                 poolSize, fileOrder, summary, authThrew, authEnv, completedOutOfOrder>>
  /\ UNCHANGED <<queue, results, latestProgressResults>>
  /\ UNCHANGED <<poolVars, callerVars, inputVars, loopVars, authVars, azureVars, acquirerVars, workerVars>>

\* "await Promise.all(running)" resolves: sort the results and return them
AllWorkersDone ==
  /\ pc = "workers"
  /\ \A w \in 1..running : wpc[w] = "done"
  /\ results' = SortByFileOrder(fileOrder, results)
  /\ completedOutOfOrder' = (\E i, j \in DOMAIN results :
                               i < j /\ results[i].specPath > results[j].specPath)
  /\ pc' = "finally"
  /\ UNCHANGED <<initFailed, authResult, authCalls, storageStatePath, poolStorage,
                 poolSize, queue, fileOrder, reportWriteTimer, reportWriteChain, latestProgressResults,
                 reports, lastReport, summary, authThrew, authEnv>>
  /\ UNCHANGED <<poolVars, callerVars, inputVars, cliVars, loopVars, authVars, azureVars, acquirerVars, workerVars>>

\* finally { await pool.close() }: the call
FinallyClose ==
  /\ pc = "finally"
  /\ closeCall
  /\ pc' = "closing"
  /\ UNCHANGED <<initFailed, authResult, authCalls, storageStatePath, poolStorage,
                 poolSize, queue, results, fileOrder, reportWriteTimer, reportWriteChain,
                 latestProgressResults, reports, lastReport, summary, authThrew, authEnv,
                 completedOutOfOrder>>
  /\ UNCHANGED <<callerVars, inputVars, cliVars, loopVars, authVars, azureVars, acquirerVars, workerVars>>

\* pool.close() advances while run() awaits it
RunCloseStep(threw) ==
  /\ pc = "closing"
  /\ closeStep(threw)
  /\ UNCHANGED <<callerVars, inputVars, cliVars, loopVars, authVars, azureVars, acquirerVars, workerVars, runVars>>

\* "await pool.close()" resolves: runSpecsInParallel returns the results, or
\* rethrows the exception of pool.initialize
AfterClose ==
  /\ pc = "closing"
  /\ closePc = "idle"
  /\ pc' = IF initFailed THEN "threw" ELSE "aggregate"
  /\ UNCHANGED <<initFailed, authResult, authCalls, storageStatePath, poolStorage,
                 poolSize, queue, results, fileOrder, reportWriteTimer, reportWriteChain,
                 latestProgressResults, reports, lastReport, summary, authThrew, authEnv,
                 completedOutOfOrder>>
  /\ UNCHANGED <<poolVars, callerVars, inputVars, cliVars, loopVars, authVars, azureVars, acquirerVars, workerVars>>

\* mutation: the armed debounce timer is left armed
clearTimeout_keep(timer) == timer

\* if (reportWriteTimer) { clearTimeout(reportWriteTimer); reportWriteTimer = undefined }
clearTimeout(timer) == FALSE

\* run() resumes after "await this.runSpecsInParallel(...)": build the summary,
\* clear the debounce timer, await reportWriteChain (a rejected chain makes
\* run() reject there), write the final report, return
Finish ==
  /\ pc = "aggregate"
  /\ reportWriteTimer' = clearTimeout(reportWriteTimer)
  /\ IF reportWriteChain = "rejected"
       THEN /\ pc' = "threw"
            /\ UNCHANGED <<summary, reports, lastReport>>
       ELSE /\ summary' = Some(RunSummary(results, EverySuccess(results), authResult))
            /\ generateHtmlReport(RunSummary(results, EverySuccess(results), authResult))
            /\ pc' = "returned"
  /\ UNCHANGED reportWriteChain
  /\ UNCHANGED <<initFailed, authResult, authCalls, storageStatePath, poolStorage,
                 poolSize, queue, results, fileOrder, latestProgressResults,
                 authThrew, authEnv, completedOutOfOrder>>
  /\ UNCHANGED <<poolVars, callerVars, inputVars, cliVars, loopVars, authVars, azureVars, acquirerVars, workerVars>>

(* ------------------------------ cli main ------------------------------- *)
\* mutation: the status does not depend on the summary
ExitCodeOf_zero(s) == 0

\* process.exit(summary.allPassed ? 0 : 1)
ExitCodeOf(s) == IF s.allPassed THEN 0 ELSE 1

\* main() resumes after "await runner.run(...)": it exits with the status of
\* the summary, or with 1 from its catch block when run() rejected
MainExit ==
  /\ pc \in {"returned", "threw"}
  /\ exitCode = None
  /\ exitCode' = Some(IF pc = "returned" THEN ExitCodeOf(summary[1]) ELSE 1)
  /\ UNCHANGED <<poolVars, callerVars, inputVars, loopVars, authVars, azureVars, acquirerVars, workerVars, runVars>>

(* ----------------------- normalizeToolsForAzure ------------------------ *)
\* a JSON schema node; properties is the list of [name, schema] in the order of
\* Object.keys; None stands for a key the node does not have
SchemaNode(type, properties, required, items) ==
  [type |-> type, properties |-> properties, required |-> required, items |-> items]

StringNode == SchemaNode("string", None, None, None)

PropNames == <<"a", "b", "c">>

\* the required lists a schema generator gives a node that declares the first
\* n property names: none, the empty one, one that names the first property
\* only, the full one
RequiredLists(n) ==
  {None, Some(<<>>)} \cup (IF n > 0 THEN {Some(<<PropNames[1]>>)} ELSE {})
  \cup {Some(SubSeq(PropNames, 1, n))}

\* object nodes declaring the first Len(schemas) property names with the given
\* schemas
ObjectNodes(schemas) ==
  {SchemaNode("object",
              Some([i \in DOMAIN schemas |-> [name |-> PropNames[i], schema |-> schemas[i]]]),
              r, None) : r \in RequiredLists(Len(schemas))}

InnerNodes ==
  LET objects == UNION {ObjectNodes([i \in 1..n |-> StringNode]) : n \in 0..3} IN
  {StringNode, SchemaNode("object", None, None, None),
   SchemaNode("array", None, None, None), SchemaNode("array", None, None, Some(StringNode))}
  \cup objects
  \cup {SchemaNode("array", None, None, Some(o)) : o \in objects}

RECURSIVE NodeCount(_)
NodeCount(node) ==
  LET RECURSIVE Sum(_)
      Sum(ps) == IF ps = <<>> THEN 0 ELSE NodeCount(Head(ps).schema) + Sum(Tail(ps))
  IN 1 + (IF node.properties = None THEN 0 ELSE Sum(node.properties[1]))
       + (IF node.items = None THEN 0 ELSE NodeCount(node.items[1]))

\* the lists of n inner nodes that have at most budget nodes together
RECURSIVE SchemaLists(_, _)
SchemaLists(n, budget) ==
  IF n = 0 THEN {<<>>}
  ELSE UNION {{Append(l, x) : l \in SchemaLists(n - 1, budget - NodeCount(x))} :
                x \in {y \in InnerNodes : NodeCount(y) <= budget - (n - 1)}}

\* the parameter schemas of the tools: object nodes of at most MaxNodes nodes
ToolSchemas ==
  UNION {ObjectNodes(l) : l \in UNION {SchemaLists(n, MaxNodes - 1) : n \in 0..3}}
  \cup {SchemaNode("object", None, None, None)}

\* a tool of an MCP session has parameters.jsonSchema; other tools carry the
\* schema as parameters itself
Tools == [wrapper : {"jsonSchema", "direct"}, schema : ToolSchemas]

\* mutation: nested schemas are not visited
normalizeSchema_shallow(node) ==
  IF node.type = "object" /\ node.properties # None /\ Len(node.properties[1]) > 0
    THEN [node EXCEPT !.required =
            Some([i \in DOMAIN node.properties[1] |-> node.properties[1][i].name])]
    ELSE node

\* normalizeSchema(schema): the schema it leaves behind
RECURSIVE normalizeSchema(_)
normalizeSchema(node) ==
  LET props == node.properties[1]
      propNames == [i \in DOMAIN props |-> props[i].name]
      object ==
        IF node.type = "object" /\ node.properties # None
          THEN [node EXCEPT
                  !.required = IF Len(propNames) > 0 THEN Some(propNames) ELSE @,
                  !.properties = Some([i \in DOMAIN props |->
                                   [name |-> props[i].name,
                                    schema |-> normalizeSchema(props[i].schema)]])]
          ELSE node
  IN IF object.type = "array" /\ object.items # None
       THEN [object EXCEPT !.items = Some(normalizeSchema(object.items[1]))]
       ELSE object

\* normalizeToolsForAzure, for one tool: the schema of the tool afterwards
normalizeToolsForAzure(tool) ==
  IF tool.wrapper = "jsonSchema" THEN normalizeSchema(tool.schema)
  ELSE IF tool.schema.type = "object" /\ tool.schema.properties # None
    THEN normalizeSchema(tool.schema)
  ELSE tool.schema

\* runSpecWithClient and runAuthentication with provider azure:
\* allTools = normalizeToolsForAzure(allTools)
NormalizeTools ==
  /\ schema # None
  /\ normalized = None
  /\ normalized' = Some(normalizeToolsForAzure(schema[1]))
  /\ UNCHANGED schema
  /\ UNCHANGED <<poolVars, callerVars, acquirerVars, inputVars, cliVars, loopVars,
                 authVars, workerVars, runVars>>

(* ----------------------- createAuthBrowserTools ------------------------ *)
AuthTools ==
  {"browser_navigate", "browser_snapshot", "browser_click", "browser_type",
   "browser_wait", "save_session"}

\* the execute functions whose body is wrapped in try { ... } catch (error)
\* { return { success: false, error: String(error) } }
ToolCatches(toolName) == toolName \in {"browser_click", "browser_type", "save_session"}

\* what becomes of a tool call whose Playwright call did or did not throw: a
\* result for the model, an error result for the model, or an exception out
\* of execute
ToolOutcome(toolName, failed) ==
  IF ~failed THEN "result"
  ELSE IF ToolCatches(toolName) THEN "toolError"
  ELSE "thrown"

\* localStorage keys (the empty string is a valid key), and the origins
StorageKeys == {"", "token", "theme"}

PageOrigin == "https://app"

OtherOrigin == "https://sso"

\* localStorage lists whose items all carry the value v: sequences of items
\* with distinct names
RECURSIVE StorageLists(_, _)
StorageLists(v, n) ==
  IF n = 0 THEN {<<>>}
  ELSE LET shorter == StorageLists(v, n - 1) IN
       shorter \cup
       {Append(p[1], [name |-> p[2], value |-> v]) :
          p \in {q \in shorter \X StorageKeys :
                   /\ Len(q[1]) = n - 1
                   /\ \A i \in DOMAIN q[1] : q[1][i].name # q[2]}}

OtherEntry == [origin |-> OtherOrigin, localStorage |-> <<[name |-> "token", value |-> "sso"]>>]

\* the origins list context.storageState() can return: at most one entry per
\* origin
OriginLists ==
  LET own == {[origin |-> PageOrigin, localStorage |-> l] :
                l \in StorageLists("old", MaxItems) \ {<<>>}}
  IN {<<>>, <<OtherEntry>>}
     \cup {<<e>> : e \in own}
     \cup {<<e, OtherEntry>> : e \in own}
     \cup {<<OtherEntry, e>> : e \in own}

BrowserStates ==
  [storageState : [cookies : {<<>>, <<"sid">>}, origins : OriginLists],
   localStorage : StorageLists("new", MaxItems),
   origin : {PageOrigin}]

\* page.evaluate: for each index i, key = localStorage.key(i);
\* if (key) data[key] = localStorage.getItem(key) || ''
LocalStorageData(ls) == SelectSeq(ls, LAMBDA item : item.name # "")

\* storageState.origins.find(o => o.origin === origin): its index, or 0
FindOrigin(origins, origin) ==
  IF \E i \in DOMAIN origins : origins[i].origin = origin
    THEN CHOOSE i \in DOMAIN origins :
           /\ origins[i].origin = origin
           /\ \A k \in 1..(i - 1) : origins[k].origin # origin
    ELSE 0

\* for (const [key, value] of Object.entries(localStorageData))
\*   if (!originEntry.localStorage.some(item => item.name === key))
\*     originEntry.localStorage.push({ name: key, value })
RECURSIVE MergeEntries(_, _)
MergeEntries(stored, data) ==
  IF data = <<>> THEN stored
  ELSE IF \E i \in DOMAIN stored : stored[i].name = Head(data).name
    THEN MergeEntries(stored, Tail(data))
    ELSE MergeEntries(Append(stored, Head(data)), Tail(data))

\* save_session: the storage state written to the session file
MergeLocalStorage(bs) ==
  LET state == bs.storageState
      data == LocalStorageData(bs.localStorage)
      found == FindOrigin(state.origins, bs.origin)
      origins == IF found = 0
                   THEN Append(state.origins, [origin |-> bs.origin, localStorage |-> <<>>])
                   ELSE state.origins
      at == IF found = 0 THEN Len(origins) ELSE found
  IN [cookies |-> state.cookies,
      origins |-> [origins EXCEPT ![at].localStorage = MergeEntries(@, data)]]

(* -------------------------- runAuthentication -------------------------- *)
\* chromium.launch, browser.newContext and context.newPage, before the try
\* block
AuthLaunch(ok) ==
  /\ authPc = "launching"
  /\ authPc' = IF ok THEN "generating" ELSE "threw"
  /\ UNCHANGED <<authStepCount, authLast, savedSessionPath, authReturn, browserState,
                 sessionFile>>
  /\ UNCHANGED <<poolVars, callerVars, inputVars, cliVars, loopVars, azureVars, acquirerVars,
                 workerVars, runVars>>

\* what runAuthentication returns once generateText has resolved or rejected
AuthResultOf(saved, threw) ==
  runAuthentication([launchOk |-> TRUE, saved |-> saved # None, captureOk |-> TRUE,
                     threw |-> threw, err |-> <<"net", "down">>, closeOk |-> TRUE])

\* one step of generateText in runAuthentication: the model calls one tool (or
\* none), execute runs; an exception out of execute makes generateText reject
\* with it, and the catch block of runAuthentication builds the AuthResult;
\* generateText resolves after a step without a tool call or after maxSteps
\* steps
AuthStep(toolName, failed) ==
  /\ authPc = "generating"
  /\ authStepCount < MaxAuthSteps
  /\ toolName = "none" => ~failed
  /\ authStepCount' = authStepCount + 1
  /\ authLast' = Some([tool |-> toolName, failed |-> failed,
                       outcome |-> ToolOutcome(toolName, failed)])
  /\ LET saves == toolName = "save_session" /\ ~failed
         saved == IF saves THEN Some("storage-state.json") ELSE savedSessionPath
         threw == ToolOutcome(toolName, failed) = "thrown"
         ends == threw \/ toolName = "none" \/ authStepCount + 1 = MaxAuthSteps
     IN /\ savedSessionPath' = saved
        /\ sessionFile' = IF saves THEN Some(MergeLocalStorage(browserState[1]))
                                   ELSE sessionFile
        /\ IF ends
             THEN /\ authReturn' = Some(AuthResultOf(saved, threw))
                  /\ authPc' = "closing"
             ELSE UNCHANGED <<authReturn, authPc>>
  /\ UNCHANGED browserState
  /\ UNCHANGED <<poolVars, callerVars, inputVars, cliVars, loopVars, azureVars, acquirerVars,
                 workerVars, runVars>>

\* generateText rejects for a reason of its own (the model API fails)
AuthGenerateThrows ==
  /\ authPc = "generating"
  /\ authReturn' = Some(AuthResultOf(savedSessionPath, TRUE))
  /\ authPc' = "closing"
  /\ UNCHANGED <<authStepCount, authLast, savedSessionPath, browserState, sessionFile>>
  /\ UNCHANGED <<poolVars, callerVars, inputVars, cliVars, loopVars, azureVars, acquirerVars,
                 workerVars, runVars>>

\* finally { await browser.close() }: a rejection replaces the AuthResult
AuthClose(ok) ==
  /\ authPc = "closing"
  /\ authPc' = IF ok THEN "returned" ELSE "threw"
  /\ authReturn' = IF ok THEN authReturn ELSE None
  /\ UNCHANGED <<authStepCount, authLast, savedSessionPath, browserState, sessionFile>>
  /\ UNCHANGED <<poolVars, callerVars, inputVars, cliVars, loopVars, azureVars, acquirerVars,
                 workerVars, runVars>>

(* --------------------------- specifications ---------------------------- *)
InitRunVars ==
  /\ initFailed = FALSE
  /\ authResult = None
  /\ authCalls = 0
  /\ storageStatePath = None
  /\ poolStorage = None
  /\ poolSize = 0
  /\ queue = <<>>
  /\ results = <<>>
  /\ fileOrder = <<>>
  /\ reportWriteTimer = FALSE
  /\ reportWriteChain = "resolved"
  /\ latestProgressResults = <<>>
  /\ reports = 0
  /\ lastReport = None
  /\ summary = None
  /\ authThrew = FALSE
  /\ authEnv = None
  /\ completedOutOfOrder = FALSE
  /\ running = 0
  /\ wpc = [w \in Workers |-> "idle"]
  /\ wfile = [w \in Workers |-> 0]
  /\ wsid = [w \in Workers |-> NoId]
  /\ wres = [w \in Workers |-> None]
  /\ exitCode = None
  /\ dequeues = [p \in Paths |-> 0]
  /\ loopRuns = [p \in Paths |-> 0]
  /\ thrown = [p \in Paths |-> None]

\* no runAuthentication of its own: the run takes what happened in it as an
\* input
InitNoAuth ==
  /\ authPc = "none"
  /\ authStepCount = 0
  /\ authLast = None
  /\ savedSessionPath = None
  /\ authReturn = None
  /\ browserState = None
  /\ sessionFile = None

InitNoAzure ==
  /\ schema = None
  /\ normalized = None

\* no Agent Loop of its own: the run takes the loop's AgentResult as an input
InitNoLoop ==
  /\ loopPc = "none"
  /\ steps = <<>>
  /\ text = <<>>
  /\ verdict = None
  /\ screenshotCfg = "noPath"
  /\ finalScreenshotCaptured = FALSE
  /\ verdictCaptureOk = FALSE
  /\ fallbackAttempted = FALSE

\* one Main.run(): any sorted list of spec files, any concurrency >= 1 (the
\* CLI passes cpus().length or 1), with or without AUTH_LOGIN.md; the report
\* directory is writable, so every generateHtmlReport call succeeds
Init ==
  /\ InitPool
  /\ InitCallers
  /\ InitRunVars
  /\ InitNoLoop
  /\ InitNoAuth
  /\ InitNoAzure
  /\ files \in SortedFileLists
  /\ concurrency \in 1..MaxConc
  /\ authExists \in BOOLEAN
  /\ pc = "start"

RunSteps ==
  \/ \E llmOk \in BOOLEAN : RunStart(llmOk)
  \/ \E env \in AuthEnvs : AuthDone(env)
  \/ PoolInitialized
  \/ \E n \in 0..MaxConc : PoolInitFailed(n)
  \/ StartWorkers
  \/ \E w \in Workers, readErr \in {None} \cup {Some(t) : t \in ReadErrTexts} : AwaitAcquire(w, readErr)
  \/ \E w \in Workers, agentResult \in AgentResults : AgentReturn(w, agentResult)
  \/ \E w \in Workers, errorMessage \in ErrTexts : AgentThrow(w, errorMessage)
  \/ \E w \in Workers : RecordResult(w)
  \/ AllWorkersDone
  \/ FinallyClose
  \/ \E threw \in BOOLEAN : RunCloseStep(threw)
  \/ AfterClose
  \/ Finish
  \/ MainExit

Next ==
  \/ RunSteps
  \/ TimerFire("ok")

Spec == Init /\ [][Next]_vars

\* the same run when the write of a progress report can fail
NextReport ==
  \/ RunSteps
  \/ \E outcome \in WriteOutcomes : TimerFire(outcome)

SpecReport == Init /\ [][NextReport]_vars

\* a pool on its own, called by arbitrary callers
InitSpecPool ==
  /\ InitPool
  /\ InitCallers
  /\ InitRunVars
  /\ InitNoLoop
  /\ InitNoAuth
  /\ InitNoAzure
  /\ files = <<>>
  /\ concurrency = 1
  /\ authExists = FALSE
  /\ pc = "none"

NextPool ==
  \/ \E size \in 0..MaxSize : PoolInitialize(size)
  \/ \E k \in 1..MaxOps : PoolInitializeDone(k)
  \/ \E k \in 1..MaxOps, n \in 0..MaxSize : PoolInitializeFail(k, n)
  \/ PoolAcquire
  \/ PoolAcquirePoll
  \/ \E id \in 0..MaxSize : PoolRelease(id)
  \/ PoolClose
  \/ \E threw \in BOOLEAN : PoolCloseStep(threw)

SpecPool == InitSpecPool /\ [][NextPool]_vars

\* one runSpecWithClient call, with any model behaviour
InitSpecLoop ==
  /\ InitPool
  /\ InitCallers
  /\ InitRunVars
  /\ InitNoAuth
  /\ InitNoAzure
  /\ files = <<>>
  /\ concurrency = 1
  /\ authExists = FALSE
  /\ pc = "none"
  /\ loopPc = "generating"
  /\ steps = <<>>
  /\ text = <<>>
  /\ verdict = None
  /\ screenshotCfg \in {"noPath", "noTool", "tool"}
  /\ finalScreenshotCaptured = FALSE
  /\ verdictCaptureOk = FALSE
  /\ fallbackAttempted = FALSE

NextLoop ==
  \/ \E calls \in StepCalls, t \in Texts :
       \E shots \in [1..ReportCount(calls) -> CaptureOutcomes] : LoopStep(calls, t, shots)
  \/ LoopThrow

SpecLoop == InitSpecLoop /\ [][NextLoop]_vars

\* one runAuthentication call, with any model behaviour and any tool failures
InitSpecAuth ==
  /\ InitPool
  /\ InitCallers
  /\ InitRunVars
  /\ InitNoLoop
  /\ InitNoAzure
  /\ files = <<>>
  /\ concurrency = 1
  /\ authExists = TRUE
  /\ pc = "none"
  /\ authPc = "launching"
  /\ authStepCount = 0
  /\ authLast = None
  /\ savedSessionPath = None
  /\ authReturn = None
  /\ browserState \in {Some(b) : b \in {x \in BrowserStates :
                          /\ x.storageState.cookies = <<"sid">>
                          /\ x.storageState.origins = <<OtherEntry>>
                          /\ Len(x.localStorage) = 1}}
  /\ sessionFile = None

NextAuth ==
  \/ \E ok \in BOOLEAN : AuthLaunch(ok)
  \/ \E toolName \in AuthTools \cup {"none"}, failed \in BOOLEAN : AuthStep(toolName, failed)
  \/ AuthGenerateThrows
  \/ \E ok \in BOOLEAN : AuthClose(ok)

SpecAuth == InitSpecAuth /\ [][NextAuth]_vars

\* a pool after "await pool.initialize(size)", used by more callers than it
\* has sessions; a session that is held is given back in the end, and the
\* timer of a polling acquire fires in the end
InitSpecAcquire ==
  /\ InitCallers
  /\ InitRunVars
  /\ InitNoLoop
  /\ InitNoAuth
  /\ InitNoAzure
  /\ files = <<>>
  /\ concurrency = 1
  /\ authExists = FALSE
  /\ pc = "none"
  /\ \E size \in 1..MaxSize :
       /\ available = NewClients(size)
       /\ created = size
       /\ initSize = size
  /\ inUse = {}
  /\ initialized = TRUE
  /\ initPending = <<>>
  /\ closePc = "idle"
  /\ closeIdx = 0
  /\ closeArr = None
  /\ closedClients = {}
  /\ clientConfigs = {createClientConfig(None)}
  /\ initDone = 1
  /\ closeBegun = FALSE
  /\ closeLog = [todo |-> {}, cur |-> NoId, threw |-> {}, raced |-> FALSE]

NextAcquire ==
  \/ \E c \in Callers : AcquireCall(c)
  \/ \E c \in Callers : AcquirePoll(c)
  \/ \E c \in Callers : AcquireRelease(c)

SpecAcquire ==
  /\ InitSpecAcquire
  /\ [][NextAcquire]_vars
  /\ \A c \in Callers : WF_vars(AcquireRelease(c)) /\ WF_vars(AcquirePoll(c))

\* either Agent Loop: one runSpecWithClient call or one runAuthentication
\* call; a step that can be made is made in the end (the model API and the
\* tools answer)
BudgetCalls == {<<>>, <<BrowserCall>>, <<ReportCall(VerdictPass)>>}

InitSpecLoops ==
  \/ InitSpecLoop /\ screenshotCfg = "tool"
  \/ InitSpecAuth

NextLoops ==
  \/ \E calls \in BudgetCalls, t \in {<<>>, <<"o", "k">>} :
       \E shots \in [1..ReportCount(calls) -> {"ok", "throws"}] : LoopStep(calls, t, shots)
  \/ LoopThrow
  \/ NextAuth

SpecLoops ==
  /\ InitSpecLoops
  /\ [][NextLoops]_vars
  /\ WF_vars(NextLoops)

\* the schema normalization applied to any tool
InitSpecAzure ==
  /\ InitPool
  /\ InitCallers
  /\ InitRunVars
  /\ InitNoLoop
  /\ InitNoAuth
  /\ files = <<>>
  /\ concurrency = 1
  /\ authExists = FALSE
  /\ pc = "none"
  /\ schema \in {Some(t) : t \in Tools}
  /\ normalized = None

NextAzure == NormalizeTools

SpecAzure == InitSpecAzure /\ [][NextAzure]_vars

\* the save_session tool, called by the model on any browser state
InitSpecSession ==
  /\ InitPool
  /\ InitCallers
  /\ InitRunVars
  /\ InitNoLoop
  /\ InitNoAzure
  /\ files = <<>>
  /\ concurrency = 1
  /\ authExists = TRUE
  /\ pc = "none"
  /\ authPc = "generating"
  /\ authStepCount = 0
  /\ authLast = None
  /\ savedSessionPath = None
  /\ authReturn = None
  /\ browserState \in {Some(b) : b \in BrowserStates}
  /\ sessionFile = None

NextSession ==
  \/ \E failed \in BOOLEAN : AuthStep("save_session", failed)
  \/ \E ok \in BOOLEAN : AuthClose(ok)

SpecSession == InitSpecSession /\ [][NextSession]_vars

(* ------------------------------ claims --------------------------------- *)
\* the pool has been initialized once and close() has not been called
PoolLive == initDone = 1 /\ ~closeBegun

\* C1: on a pool initialized with size N, whatever acquire and release calls
\* are made, at most N ids are in the in-use set and no id is both in the
\* available list and in the in-use set
C1_MutualExclusion ==
  PoolLive => /\ Cardinality(inUse) <= initSize
              /\ AvailableIds \cap inUse = {}

C1_Witness ==
  /\ PoolLive
  /\ initSize = 2
  /\ Cardinality(inUse) = 2
  /\ waiters > 0

\* C2: during a run no two workers hold the same session id, so no two active
\* Agent Loops are bound to the same session, and the session of an active
\* Agent Loop is recorded as in-use
C2_NoSharedSession ==
  /\ \A w1, w2 \in Workers :
       (w1 # w2 /\ wsid[w1] # NoId /\ wsid[w2] # NoId) => wsid[w1] # wsid[w2]
  /\ \A w \in Workers : wpc[w] = "running" => wsid[w] \in inUse

C2_Witness ==
  \E w1, w2 \in Workers :
    /\ w1 # w2
    /\ wpc[w1] = "running"
    /\ wpc[w2] = "running"
    /\ wsid[w1] # wsid[w2]

ReleaseStep == nOps' = nOps + 1 /\ lastOp'.op = "release"

\* C3: release(id) for an id that is not in the in-use set changes neither the
\* available list nor the in-use set; after any release(id) the id is not in
\* the in-use set, so a second release(id) in a row is such a no-op; and no id
\* is twice in the available list
C3_ReleaseIdempotent ==
  /\ [][(ReleaseStep /\ lastOp'.id \notin inUse)
          => (available' = available /\ inUse' = inUse)]_vars
  /\ [][ReleaseStep => lastOp'.id \notin inUse']_vars
  /\ [](PoolLive => \A i, j \in DOMAIN available :
                      i # j => available[i].id # available[j].id)

C3_Witness ==
  /\ PoolLive
  /\ lastOp.op = "release"
  /\ lastOp.again
  /\ lastOp.id \in AvailableIds

\* C4: between the completion of initialize(N) and the call of close,
\* availableCount plus the number of in-use ids is N, and the sessions are the
\* N sessions initialize created
C4_SizeConserved ==
  PoolLive => /\ Len(available) + Cardinality(inUse) = initSize
              /\ AvailableIds \cup inUse = 0..(initSize - 1)

C4_Witness ==
  /\ PoolLive
  /\ initSize = 2
  /\ Len(available) = 1
  /\ Cardinality(inUse) = 1
  /\ lastOp.op = "release"

\* run() returned after running the specs (authentication absent or successful)
RanSpecs == pc = "returned" /\ (authResult = None \/ authResult[1].success)

ResultPaths(rs) == [i \in 1..Len(rs) |-> rs[i].specPath]

\* C5: the results returned by the run are in discovery order, whatever order
\* the specs completed in
C5_ResultsInDiscoveryOrder ==
  RanSpecs => ResultPaths(summary[1].results) = files

C5_Witness ==
  /\ RanSpecs
  /\ completedOutOfOrder
  /\ Len(files) >= 2

\* C6: every discovered spec is dequeued exactly once, is given to the Agent
\* Loop at most once, and has exactly one entry in the final results
C6_OneResultPerSpec ==
  /\ \A p \in Paths : dequeues[p] <= 1 /\ loopRuns[p] <= dequeues[p]
  /\ RanSpecs =>
       /\ Len(summary[1].results) = Len(files)
       /\ \A f \in Range(files) :
            /\ dequeues[f] = 1
            /\ Cardinality({i \in DOMAIN results : results[i].specPath = f}) = 1

C6_Witness ==
  /\ RanSpecs
  /\ Len(files) >= 2
  /\ \E f \in Range(files) : thrown[f] # None

ActiveLoops == {w \in Workers : wpc[w] = "running"}

\* C7: at most min(requested concurrency, number of specs) Agent Loops are
\* active at any moment
C7_BoundedConcurrency ==
  Cardinality(ActiveLoops) <= Min(concurrency, Len(files))

C7_Witness ==
  /\ concurrency = 1
  /\ Len(files) = 2
  /\ Len(results) = 1
  /\ Cardinality(ActiveLoops) = 1

\* C8: an exception of one spec's Agent Loop becomes that spec's TestResult
\* with success = false and the exception text in details; the run does not
\* throw because of it (it rejects only where a progress write failed) and
\* every spec has its result
C8_ExceptionIsolated ==
  /\ ((\E p \in Paths : thrown[p] # None) /\ reportWriteChain = "resolved") => pc # "threw"
  /\ RanSpecs =>
       \A f \in Range(files) :
         \E i \in DOMAIN results :
           /\ results[i].specPath = f
           /\ thrown[f] # None =>
                /\ ~results[i].success
                /\ Contains(results[i].details, thrown[f][1])

C8_Witness ==
  /\ RanSpecs
  /\ \E f, g \in Range(files) :
       /\ thrown[f] # None
       /\ thrown[g] = None
       /\ \E i \in DOMAIN results : results[i].specPath = g /\ results[i].success

\* C9: the TestResult of a spec whose Agent Loop threw has isToolingError = true
C9_ThrownIsToolingError ==
  \A i \in DOMAIN results :
    thrown[results[i].specPath] # None => results[i].isToolingError = Some(TRUE)

\* the Authentication Bootstrap failed: it returned success = false, or threw
AuthFailed == authThrew \/ (authResult # None /\ ~authResult[1].success)

\* C10: when the Authentication Bootstrap fails, no spec is dequeued, no pool
\* is initialized, no Agent Loop starts, and the RunSummary run() returns has
\* allPassed = false and no results
C10_AuthGate ==
  AuthFailed =>
    /\ \A p \in Paths : dequeues[p] = 0 /\ loopRuns[p] = 0
    /\ initPending = <<>> /\ initDone = 0 /\ created = 0
    /\ pc \in {"returned", "threw"}
    /\ pc = "returned" => /\ summary # None
                          /\ ~summary[1].allPassed
                          /\ summary[1].results = <<>>

C10_Witness ==
  /\ AuthFailed
  /\ pc = "returned"
  /\ Len(files) >= 2

\* run() has ended: it returned a RunSummary or rejected
RunEnded == pc \in {"returned", "threw"}

\* C11: whenever the Authentication Bootstrap fails (no save_session call, or
\* it threw), the report last written when the run ends carries the failed
\* authResult and allPassed = false
C11_AuthFailureReported ==
  (AuthFailed /\ RunEnded) =>
    /\ lastReport # None
    /\ lastReport[1].authResult # None
    /\ ~lastReport[1].authResult[1].success
    /\ ~lastReport[1].allPassed

HasReport(calls) == \E i \in DOMAIN calls : calls[i].toolName = "report_result"

\* the steps made after a step that called report_result
StepsAfterVerdict ==
  {j \in DOMAIN steps : \E i \in 1..(j - 1) : HasReport(steps[i])}

\* C12: once a step has called report_result the Agent Loop makes no further
\* step, so no tool call is dispatched after the verdict call, and the loop
\* returns that verdict
C12_StopsAtVerdict ==
  /\ StepsAfterVerdict = {}
  /\ \A i \in DOMAIN steps :
       (loopPc = "returned" /\ HasReport(steps[i])) => verdict = FirstReport(steps[i])

\* the model never called report_result
NoVerdictCall == \A i \in DOMAIN steps : ~HasReport(steps[i])

\* C13: without a report_result call the returned verdict follows the final
\* text: success iff the lowercased text contains "pass" and not "fail", with
\* isToolingError = false and one synthesized criterion; with no text at all
\* the no-verdict tooling error is returned
C13_TextFallback ==
  (loopPc = "returned" /\ NoVerdictCall) =>
    LET lower == toLowerCase(text)
        hasPass == Contains(lower, <<"p", "a", "s", "s">>)
        hasFail == Contains(lower, <<"f", "a", "i", "l">>)
        v == verdict[1]
    IN /\ (text # <<>> /\ hasPass /\ ~hasFail) => v.success
       /\ (text # <<>> /\ (hasFail \/ ~hasPass)) => ~v.success
       /\ text # <<>> => /\ ~v.isToolingError
                         /\ Len(v.criteria) = 1
                         /\ v.criteria[1].passed = v.success
       /\ text = <<"P", "A", "S", "S">> => v.success
       /\ text = <<>> =>
            v = [success |-> FALSE, isToolingError |-> TRUE,
                 toolingErrorMessage |-> <<"Agent did not produce a test result">>,
                 criteria |-> <<>>]

C13_Witness ==
  /\ loopPc = "returned"
  /\ NoVerdictCall
  /\ Len(steps) = MaxSteps
  /\ text = <<"p", "a", "s", "s", " ", "F", "a", "i", "l">>
  /\ ~verdict[1].success

\* C14: every AgentResult the Agent Loop returns has isToolingError = true
\* only with a non-empty toolingErrorMessage and success = false, and has an
\* empty criteria list only as a tooling error or as the no-verdict fallback
C14_VerdictInvariant ==
  loopPc = "returned" =>
    LET v == verdict[1] IN
    /\ v.isToolingError => (v.toolingErrorMessage # <<>> /\ ~v.success)
    /\ v.criteria = <<>> => (v.isToolingError \/ (NoVerdictCall /\ text = <<>>))

\* C15: the process exits with status 0 exactly when run() returned, every
\* TestResult succeeded and authentication, if an auth script is present,
\* succeeded; otherwise (a failed spec, failed authentication, a fatal error)
\* it exits with a non-zero status
C15_ExitStatus ==
  exitCode # None =>
    /\ exitCode[1] \in {0, 1}
    /\ exitCode[1] = 0 <=>
         /\ pc = "returned"
         /\ \A i \in DOMAIN results : results[i].success
         /\ \A f \in Range(files) : \E i \in DOMAIN results : results[i].specPath = f
         /\ authExists => (authResult # None /\ authResult[1].success)

C15_Witness ==
  /\ exitCode = Some(0)
  /\ authExists
  /\ Len(files) = 2

\* C16: runAuthentication returns success = true exactly when save_session
\* was invoked during the agent run, and returns success = false with a
\* non-empty error whenever save_session was not invoked
C16_SuccessIffSaved ==
  authEnv # None =>
    /\ (authResult # None /\ authResult[1].success) <=> authEnv[1].saved
    /\ ~authEnv[1].saved => /\ authResult # None
                            /\ ~authResult[1].success
                            /\ authResult[1].error # None
                            /\ authResult[1].error[1] # <<>>

\* C17: the final report is written whatever the state of the debounce timer;
\* every progress write precedes it (a fired timer writes its report in the
\* same turn), none follows it and no timer stays armed, so the report last
\* written by a run that ran the specs is the returned summary with the
\* complete result list
C17_FinalReportLast ==
  /\ [](RanSpecs => /\ lastReport = summary
                    /\ ResultPaths(lastReport[1].results) = files)
  /\ [](pc = "returned" => ~reportWriteTimer)
  /\ [][pc = "returned" => (reports' = reports /\ lastReport' = lastReport)]_vars

C17_Witness ==
  /\ RanSpecs
  /\ ~authExists
  /\ Len(files) = 2
  /\ reports = 3

InitializeStep == nOps' = nOps + 1 /\ lastOp'.op = "initialize"

\* C18: initialize called on a pool that is already initialized starts no
\* session creation and leaves the available list, the in-use set and the
\* initialized flag as they are
C18_InitializeIdempotent ==
  [][(InitializeStep /\ initialized) =>
       /\ initPending' = initPending
       /\ created' = created
       /\ available' = available
       /\ inUse' = inUse
       /\ initialized']_vars

C18_Witness ==
  /\ initialized
  /\ lastOp.op = "initialize"
  /\ initDone = 1
  /\ initPending = <<>>
  /\ created = initSize
  /\ Cardinality(inUse) = 1
  /\ Len(available) = 1

\* a close() call has run to its end
CloseDone == closeBegun /\ closePc = "idle"

C20_StorageState ==
  /\ (authResult # None /\ authResult[1].success) =>
       /\ storageStatePath # None
       /\ \A c \in clientConfigs : c.storageState = storageStatePath
  /\ (Len(available) > 0 \/ inUse # {}) => clientConfigs # {}
  /\ ~authExists =>
       /\ authResult = None
       /\ summary # None => summary[1].authResult = None
       /\ lastReport # None => lastReport[1].authResult = None
       /\ \A c \in clientConfigs : c.storageState = None

C20_Witness ==
  /\ authResult # None
  /\ authResult[1].success
  /\ Len(available) = 2
  /\ clientConfigs = {[isolated |-> TRUE, storageState |-> Some("storage-state.json")]}

\* the RunSummary values the run has handed out: the one written last to the
\* report and the one run() returned
ProducedSummaries ==
  {x[1] : x \in {y \in {lastReport, summary} : y # None}}

AllSucceeded(s) == \A i \in DOMAIN s.results : s.results[i].success

\* C21: in every RunSummary the run produces, allPassed equals the conjunction
\* of success over the results of that summary, and is true when the results
\* list is empty
C21_AllPassedIsConjunction ==
  \A s \in ProducedSummaries :
    /\ s.allPassed = AllSucceeded(s)
    /\ s.results = <<>> => s.allPassed

\* C21 (amended): allPassed is the conjunction of success over the results of
\* the summary and of the success of the Authentication Bootstrap when it ran;
\* with no results it is true unless the bootstrap failed
C21_AllPassedWithAuth ==
  \A s \in ProducedSummaries :
    LET authOk == s.authResult = None \/ s.authResult[1].success IN
    /\ s.allPassed = (AllSucceeded(s) /\ authOk)
    /\ (s.results = <<>> /\ authOk) => s.allPassed
    /\ ~authOk => s.results = <<>>

\* a progress snapshot of two results, the first passed and the second failed,
\* written after a successful bootstrap
C21_Witness ==
  /\ pc = "workers"
  /\ lastReport # None
  /\ Len(lastReport[1].results) = 2
  /\ lastReport[1].results[1].success
  /\ ~lastReport[1].results[2].success
  /\ lastReport[1].authResult # None
  /\ ~lastReport[1].allPassed

\* pool.initialize has been called, a session was created or configured, a
\* spec was dequeued or an Agent Loop was started
PoolOrLoopStarted ==
  \/ initPending # <<>> \/ initDone > 0 \/ created > 0 \/ clientConfigs # {}
  \/ \E p \in Paths : dequeues[p] > 0 \/ loopRuns[p] > 0

\* runAuthentication has been called and run() has resumed after it
AuthCompleted == authCalls = 1 /\ authEnv # None /\ pc # "auth"

\* C22: the Authentication Bootstrap is invoked at most once; when
\* AUTH_LOGIN.md exists it has completed, successfully, before the pool is
\* initialized and before any Agent Loop starts; the pool reads the storage
\* state it produced, and neither that nor the auth result changes afterwards
C22_AuthOnceBeforePool ==
  /\ [](authCalls <= 1)
  /\ [](pc = "auth" => ~PoolOrLoopStarted)
  /\ []((authExists /\ PoolOrLoopStarted) =>
          /\ AuthCompleted
          /\ authResult # None /\ authResult[1].success
          /\ poolStorage = storageStatePath
          /\ storageStatePath # None)
  /\ [][AuthCompleted => /\ authCalls' = authCalls
                          /\ authResult' = authResult
                          /\ storageStatePath' = storageStatePath]_vars

C22_Witness ==
  /\ authExists
  /\ AuthCompleted
  /\ pc = "workers"
  /\ Len(files) = 2
  /\ \A p \in 1..2 : loopRuns[p] = 1
  /\ clientConfigs = {createClientConfig(storageStatePath)}

\* steps of worker w: it takes the next spec off the queue, its Agent Loop
\* starts, its session goes back to the pool, its TestResult is pushed
DequeueStep(w) == wfile'[w] # wfile[w]

LoopStartStep(w) == wpc[w] # "running" /\ wpc'[w] = "running"

SlotReleaseStep(w) == wsid[w] # NoId /\ wsid'[w] = NoId

RecordStep(w) ==
  /\ wpc[w] = "resolved"
  /\ Len(results') = Len(results) + 1
  /\ results'[Len(results')].specPath = wfile[w]

\* what C23's order has in common with the code's: a spec is dequeued by a
\* worker that holds no session and whose previous result is recorded by then;
\* the Agent Loop starts only with a session checked out for the dequeued
\* spec; a result is recorded only for a spec whose TestResult was built
WorkerOrderCommon(w) ==
  /\ DequeueStep(w) =>
        /\ wsid[w] = NoId
        /\ wpc[w] \in {"idle", "resolved"}
        /\ wfile[w] # 0 => wfile[w] \in Range(ResultPaths(results'))
        /\ dequeues'[wfile'[w]] = dequeues[wfile'[w]] + 1
  /\ LoopStartStep(w) =>
        /\ wpc[w] = "acquired"
        /\ wsid[w] # NoId /\ wsid[w] \in inUse
        /\ dequeues[wfile[w]] = 1
        /\ loopRuns'[wfile[w]] = loopRuns[wfile[w]] + 1
  /\ RecordStep(w) =>
        /\ wres[w] # None
        /\ results' = Append(results, wres[w][1])

\* C23: each worker dequeues one unit, acquires a slot, runs the Agent Loop,
\* records the TestResult in the result buffer, releases the slot, and only
\* then dequeues the next unit: at the release the result is already recorded
C23_RecordThenRelease ==
  [][\A w \in Workers :
       /\ WorkerOrderCommon(w)
       /\ SlotReleaseStep(w) => wfile[w] \in Range(ResultPaths(results'))]_vars

\* C23 (amended): the slot is released when runSpecWithPool returns the
\* TestResult, before runNext records it; the result is recorded with the slot
\* already back in the pool, and the next unit is dequeued in the same step
C23_ReleaseThenRecord ==
  [][\A w \in Workers :
       /\ WorkerOrderCommon(w)
       /\ SlotReleaseStep(w) =>
             /\ wpc[w] \in {"acquired", "running"}
             /\ wres'[w] # None /\ wres'[w][1].specPath = wfile[w]
             /\ wfile[w] \notin Range(ResultPaths(results'))
             /\ wsid[w] \notin inUse'
       /\ RecordStep(w) => wsid[w] = NoId]_vars

\* the single worker has recorded its first spec, has run the second one and
\* released the session, and the second result is not recorded yet
C23_Witness ==
  /\ pc = "workers"
  /\ running = 1
  /\ Len(files) = 2
  /\ Len(results) = 1
  /\ wpc[1] = "resolved"
  /\ wsid[1] = NoId
  /\ wfile[1] = files[2]
  /\ Len(available) = 1

\* the positions <<step, call>> of the report_result calls
ReportPositions ==
  {<<i, j>> \in (1..MaxSteps) \X (1..2) :
     /\ i \in DOMAIN steps /\ j \in DOMAIN steps[i]
     /\ steps[i][j].toolName = "report_result"}

Earlier(p, q) == p[1] < q[1] \/ (p[1] = q[1] /\ p[2] <= q[2])

\* C24: when some step calls report_result, the returned verdict is the
\* arguments of the earliest such call in step order, whatever later calls and
\* the final text say; a verdict synthesized from the text (or the no-verdict
\* error) is returned only when no step calls report_result
C24_EarliestVerdictWins ==
  loopPc = "returned" =>
    /\ \A p \in ReportPositions :
         (\A q \in ReportPositions : Earlier(p, q)) =>
           verdict = steps[p[1]][p[2]].args
    /\ (verdict[1] \notin ReportArgs) => ReportPositions = {}

\* the first verdict call passes, a later step reports a failure, and the
\* final text says fail
C24_Witness ==
  /\ loopPc = "returned"
  /\ Len(steps) = 3
  /\ steps[1] = <<ReportCall(VerdictPass), ReportCall(VerdictFail)>>
  /\ steps[2] = <<ReportCall(VerdictFail)>>
  /\ steps[3] = <<>>
  /\ text = <<"f", "a", "i", "l">>
  /\ verdict = Some(VerdictPass)

\* C25: an exception raised while executing a tool call of the authentication
\* toolset is caught by the tool and returned to the model as a tool error
\* result, whichever of the six tools it is; it never leaves the agent loop
C25_ToolErrorsReturned ==
  (authLast # None /\ authLast[1].failed) =>
    /\ authLast[1].outcome = "toolError"
    /\ authStepCount < MaxAuthSteps => authPc = "generating"

\* C26: final-screenshot capture is best-effort: whatever each capture does,
\* the AgentResult returned is the one the steps and the text determine and
\* the loop does not end by an exception of the capture; and the fallback
\* capture after the loop is attempted only when no capture made during a
\* report_result execution succeeded
C26_CaptureBestEffort ==
  loopPc = "returned" =>
    /\ verdict # None
    /\ ReportPositions # {} =>
         \E p \in ReportPositions : verdict = steps[p[1]][p[2]].args
    /\ fallbackAttempted => ~verdictCaptureOk

\* C27: if every acquired slot is eventually released, every acquire call,
\* each of several concurrent waiters included, eventually obtains a slot
C27_EveryWaiterServed ==
  \A c \in Callers : (cpc[c] = "waiting") ~> (cpc[c] = "holding")

\* no acquire call by another caller than c takes a session
NoOtherTakes(c) ==
  \A d \in Callers \ {c} : cpc'[d] = "holding" => cpc[d] = "holding"

\* C27 (amended): a waiter takes a session at its first poll that finds one
\* available, so it never keeps polling while a session stays available, and
\* it obtains a slot once no other acquire call takes the released sessions
\* first; it holds exactly the session it took
C27_WaiterTakesAvailable ==
  /\ \A c \in Callers : []<>~(cpc[c] = "waiting" /\ Len(available) > 0)
  /\ \A c \in Callers : <>[][NoOtherTakes(c)]_vars => []<>(cpc[c] # "waiting")
  /\ [](\A c \in Callers : cpc[c] = "holding" <=> csid[c] \in inUse)

\* two callers polled at the same time for the single session; one of them
\* has obtained it by a poll and the other one still polls
C27_Witness ==
  /\ initSize = 1
  /\ lastOp.op = "poll"
  /\ cpc[lastOp.id] = "holding"
  /\ waiters = 1
  /\ \E c \in Callers : cpc[c] = "waiting"
  /\ \E c \in Callers : cpc[c] = "idle"

LoopEnded == loopPc \in {"returned", "threw"}

AuthEnded == authPc \in {"returned", "threw"}

\* C28: an Agent Loop ends, with exactly one verdict or with an exception,
\* after at most its step budget, however long the model keeps emitting tool
\* calls: each step counts against the budget, at the budget the loop is
\* over, and what it ended with does not change afterwards
C28_EndsWithinBudget ==
  /\ [](Len(steps) <= MaxSteps /\ authStepCount <= MaxAuthSteps)
  /\ [](loopPc = "generating" => Len(steps) < MaxSteps)
  /\ [](authPc = "generating" => authStepCount < MaxAuthSteps)
  /\ [][loopPc = "generating" => (Len(steps') = Len(steps) + 1 \/ LoopEnded')]_vars
  /\ [][authPc = "generating" => (authStepCount' = authStepCount + 1 \/ authPc' = "closing")]_vars
  /\ [](LoopEnded => (loopPc = "returned" <=> verdict # None))
  /\ [](AuthEnded => (authPc = "returned" <=> authReturn # None))
  /\ [][LoopEnded => (loopPc' = loopPc /\ verdict' = verdict /\ steps' = steps)]_vars
  /\ [][AuthEnded => (authPc' = authPc /\ authReturn' = authReturn
                       /\ authStepCount' = authStepCount)]_vars
  /\ (loopPc = "generating") ~> LoopEnded
  /\ (authPc = "launching") ~> AuthEnded

\* the model made a tool call in every step up to the budget and the loop
\* returned a verdict all the same
C28_Witness ==
  /\ loopPc = "returned"
  /\ Len(steps) = MaxSteps
  /\ \A i \in DOMAIN steps : steps[i] = <<BrowserCall>>
  /\ verdict # None

\* the nodes reachable from a schema through properties and array items
RECURSIVE ReachableNodes(_)
ReachableNodes(node) ==
  {node}
  \cup (IF node.properties = None THEN {}
        ELSE UNION {ReachableNodes(node.properties[1][i].schema) :
                      i \in DOMAIN node.properties[1]})
  \cup (IF node.items = None THEN {} ELSE ReachableNodes(node.items[1]))

DeclaredNames(node) ==
  IF node.properties = None THEN {}
  ELSE {node.properties[1][i].name : i \in DOMAIN node.properties[1]}

\* the names a node requires: none when it has no required list
RequiredNames(node) == IF node.required = None THEN {} ELSE Range(node.required[1])

\* a schema without its required lists
RECURSIVE WithoutRequired(_)
WithoutRequired(node) ==
  [type |-> node.type,
   properties |-> IF node.properties = None THEN None
                  ELSE Some([i \in DOMAIN node.properties[1] |->
                          [name |-> node.properties[1][i].name,
                           schema |-> WithoutRequired(node.properties[1][i].schema)]]),
   items |-> IF node.items = None THEN None ELSE Some(WithoutRequired(node.items[1]))]

\* C29: after normalization every object-typed node reachable from the
\* parameter schema through properties and array items requires exactly its
\* declared property names, each once; nothing else of the schema changes
C29_RequiredIsAllProperties ==
  normalized # None =>
    /\ \A node \in ReachableNodes(normalized[1]) :
         node.type = "object" =>
           /\ RequiredNames(node) = DeclaredNames(node)
           /\ node.required # None => Len(node.required[1]) = Cardinality(DeclaredNames(node))
    /\ WithoutRequired(normalized[1]) = WithoutRequired(schema[1].schema)

\* three properties with required: [], one of them an object that declares a
\* property and requires none
C29_Witness ==
  /\ normalized # None
  /\ schema[1].schema.required = Some(<<>>)
  /\ Len(schema[1].schema.properties[1]) = 3
  /\ schema[1].schema.properties[1][2].schema.type = "object"
  /\ schema[1].schema.properties[1][2].schema.required = Some(<<>>)
  /\ normalized[1].required = Some(<<"a", "b", "c">>)
  /\ normalized[1].properties[1][2].schema.required = Some(<<"a">>)

\* the localStorage list of the entry of an origin (empty without an entry)
EntryOf(origins, origin) ==
  IF \E i \in DOMAIN origins : origins[i].origin = origin
    THEN (CHOOSE e \in Range(origins) : e.origin = origin).localStorage
    ELSE <<>>

\* C30: save_session merges the page's localStorage into the captured state
\* additively: a key already present for the page's origin keeps its value,
\* every page key not yet present is added with the page's value, nothing
\* else is added, and the entries of other origins and the cookies stay as
\* they were
C30_MergeAdditive ==
  sessionFile # None =>
    LET captured == browserState[1].storageState
        page == browserState[1].localStorage
        origin == browserState[1].origin
        before == EntryOf(captured.origins, origin)
        after == EntryOf(sessionFile[1].origins, origin)
    IN /\ sessionFile[1].cookies = captured.cookies
       /\ \A i \in DOMAIN captured.origins :
            captured.origins[i].origin # origin =>
              sessionFile[1].origins[i] = captured.origins[i]
       /\ \A i \in DOMAIN before : after[i] = before[i]
       /\ \A i \in DOMAIN page :
            (\A k \in DOMAIN before : before[k].name # page[i].name) =>
              \E k \in DOMAIN after : after[k] = page[i]
       /\ \A k \in DOMAIN after :
            \/ k \in DOMAIN before
            \/ \E i \in DOMAIN page : after[k] = page[i]
       /\ \A k, m \in DOMAIN after : after[k].name = after[m].name => k = m

\* the workers that hold a spec: shifted off the queue and not yet recorded
BusyWorkers == {w \in Workers : wpc[w] \in {"waiting", "acquired", "running", "resolved"}}

\* C31: with concurrency 1 at most one Agent Loop is active and at most one
\* spec is in execution at any time, and the specs are executed in sorted
\* discovery order: a spec is taken off the queue only when the results of
\* all specs before it are recorded, so the results are recorded in the
\* order of the file list
C31_SequentialInOrder ==
  concurrency = 1 =>
    /\ Cardinality(ActiveLoops) <= 1
    /\ Cardinality(BusyWorkers) <= 1
    /\ \A i, j \in DOMAIN files :
         i < j /\ dequeues[files[j]] > 0 =>
           \E k \in DOMAIN results : results[k].specPath = files[i]
    /\ \A k \in DOMAIN results : results[k].specPath = files[k]

C31_Witness ==
  /\ concurrency = 1
  /\ Len(files) = MaxPath
  /\ \E w \in Workers : wpc[w] = "running" /\ wfile[w] = files[MaxPath]
  /\ Len(results) = MaxPath - 1

\* C32: an exception thrown by a progressive report write does not impact
\* the run: run() does not reject and the process does not end because of
\* it, and when run() has returned the final report has been written
C32_ReporterErrorsIsolated ==
  reportWriteChain = "rejected" =>
    /\ pc \notin {"threw", "crashed"}
    /\ pc = "returned" => (summary # None /\ lastReport = summary)

\* the sessions of a pool of the given size
SessionIds(size) == 0..(size - 1)

\* C33: when runSpecsInParallel closes the pool after the workers ended, the
\* in-use set is empty and no worker holds a slot, also when Agent Loops
\* threw: all poolSize sessions are in the available list, and when close()
\* has ended it has called close() on every one of them
C33_AllReleasedAtClose ==
  (~initFailed /\ pc \in {"finally", "closing", "aggregate", "returned"}) =>
    /\ inUse = {}
    /\ \A w \in Workers : wsid[w] = NoId
    /\ created = poolSize
    /\ pc = "finally" => AvailableIds = SessionIds(poolSize) /\ Len(available) = poolSize
    /\ pc \in {"aggregate", "returned"} => closedClients = SessionIds(poolSize)

C33_Witness ==
  /\ ~initFailed
  /\ pc = "aggregate"
  /\ poolSize = MaxConc
  /\ \E p \in Paths : thrown[p] # None
  /\ closedClients = SessionIds(MaxConc)
  /\ closeLog.threw # {}

\* C34: when initialize fails, the pool.close() run by the finally block of
\* runSpecsInParallel calls close() on every session that was created, so
\* when the run has ended no created session is left unclosed
C34_InitFailureClosesCreated ==
  (initFailed /\ pc = "threw") => Cardinality(closedClients) = created

\* a second initialize call of a pool that was never closed completes: it was
\* made before the first one completed, or the guard would have returned
SecondInitializeCompletes ==
  initDone >= 1 /\ ~closeBegun /\ initDone' = initDone + 1 /\ initSize' = initSize

\* C35: an initialize(size) call made while an earlier initialize(size) has
\* not completed creates no additional sessions: when it completes the pool
\* still has the sessions of the first call, each id once
C35_ConcurrentInitializeOnce ==
  [][SecondInitializeCompletes =>
       /\ created' = created
       /\ available' = available
       /\ AvailableIds \cap inUse = {} => \A i \in DOMAIN available' : available'[i].id \notin inUse']_vars

\* the slots held by the workers
HeldSlots == {wsid[w] : w \in Workers} \ {NoId}

\* C36: in a run no worker ever polls in acquire: the number of workers is
\* poolSize, the slots in use are exactly those the workers hold, one each,
\* every slot not held is in the available list, and a worker that has its
\* result holds no slot when it records it and dequeues again
C36_AcquireNeverPolls ==
  /\ \A w \in Workers : wpc[w] # "waiting"
  /\ pc = "workers" =>
       /\ running = poolSize
       /\ Len(available) + Cardinality(inUse) = poolSize
       /\ Cardinality(BusyWorkers) <= poolSize
  /\ inUse = HeldSlots
  /\ \A v, w \in Workers : (wsid[v] # NoId /\ wsid[v] = wsid[w]) => v = w
  /\ \A w \in Workers : wpc[w] \in {"idle", "resolved", "done"} => wsid[w] = NoId

C36_Witness ==
  /\ pc = "workers"
  /\ Len(files) = MaxPath
  /\ poolSize = 1
  /\ Len(results) = MaxPath - 1
  /\ wpc[1] = "acquired"
  /\ wsid[1] = 0
  /\ available = <<>>

\* the paths of a result list are in discovery order, each at most once
InDiscoveryOrder(rs) ==
  \A i, j \in DOMAIN rs : i < j => OrderOf(fileOrder, rs[i].specPath) < OrderOf(fileOrder, rs[j].specPath)

\* a progress report is written: the timer callback ran and wrote
ProgressWriteStep == reportWriteTimer /\ ~reportWriteTimer' /\ pc' = pc /\ reports' = reports + 1

\* C37: every snapshot handed to the reporter is in discovery order with each
\* spec at most once and is the sorted content of the result buffer; a later
\* snapshot contains every result of an earlier one; and the progress report
\* written when the timer fires is that of the snapshot supplied last
C37_SnapshotsGrowSorted ==
  /\ [](InDiscoveryOrder(latestProgressResults))
  /\ [](pc \in {"workers", "finally", "closing", "aggregate", "returned"} =>
         latestProgressResults = SortByFileOrder(fileOrder, results))
  /\ [][\A i \in DOMAIN latestProgressResults :
          \E j \in DOMAIN latestProgressResults' :
            latestProgressResults'[j] = latestProgressResults[i]]_vars
  /\ [][ProgressWriteStep =>
          /\ lastReport'[1].results = latestProgressResults
          /\ lastReport'[1].results = SortByFileOrder(fileOrder, results)]_vars

C37_Witness ==
  /\ pc = "workers"
  /\ reports = 2
  /\ ~authExists
  /\ Len(results) = 2
  /\ results[1].specPath > results[2].specPath
  /\ lastReport # None
  /\ Len(lastReport[1].results) = 2
  /\ ~reportWriteTimer

====
